---- MODULE Spec2Model ----
(***************************************************************************)
(* A model of filament's apigen: the API model (model/*.py), the name      *)
(* resolver (generators/c_name_mangling.py), the ABI type converter and    *)
(* delegate factory (generators/c_type_conversion.py, c_delegates.py), the *)
(* older C generator (generators/c.py) and the declaration extractor       *)
(* (apiparser.py).                                                         *)
(*                                                                         *)
(* Python objects that define no __eq__ (ApiParameterModel, ApiMethod)     *)
(* compare by identity; they are records carrying an object identity       *)
(* "oid", so that record equality is identity.  Python lists compare       *)
(* element-wise, so a list is a sequence.  A raised exception is the       *)
(* record Raise(e); a returned value v is Ok(v).                           *)
(***************************************************************************)
EXTENDS Integers, Sequences, FiniteSets, TLC

VARIABLES
    owners,     \* name resolver: the classes/interfaces of the API model
    names,      \* name resolver: the external names of the last owner resolved
    method,     \* generator: the method (or callback) of the model being emitted
    out,        \* generator: what the last generator call emitted or raised
    emits,      \* generator: number of generator calls made for the method
    translation_unit,   \* parser: the top-level cursors of the translation unit
    model,      \* parser: what parse_api returned or raised
    output_dir, \* C generator: the files of the output directory
    generated   \* C generator: how the last run of generate() ended

namesVars == <<owners, names>>
returnVars == <<method, out, emits>>
parserVars == <<translation_unit, model>>
generatorVars == <<output_dir, generated>>
vars == <<owners, names, method, out, emits, translation_unit, model, output_dir, generated>>

-----------------------------------------------------------------------------
(* Results of calls that may raise.                                        *)

Ok(v) == [ok |-> TRUE, value |-> v]
Raise(e) == [ok |-> FALSE, error |-> e]

\* Qualified names are sequences of characters, so that mangling is computed.
NsWidget == <<"N", "s", ":", ":", "W", "i", "d", "g", "e", "t">>
NsOther == <<"N", "s", ":", ":", "O", "t", "h", "e", "r">>
NsMode == <<"N", "s", ":", ":", "M", "o", "d", "e">>
NsBox == <<"N", "s", ":", ":", "B", "o", "x">>
NsFn == <<"N", "s", ":", ":", "F", "n">>
NsHidden == <<"N", "s", ":", ":", "H", "i", "d", "d", "e", "n">>
NsColor == <<"N", "s", ":", ":", "C", "o", "l", "o", "r">>
NsFlag == <<"N", "s", ":", ":", "F", "l", "a", "g">>
NsListener == <<"N", "s", ":", ":", "L", "i", "s", "t", "e", "n", "e", "r">>
NsMid == <<"N", "s", ":", ":", "M", "i", "d">>
NsFilamentAPI == <<"N", "s", ":", ":", "F", "i", "l", "a", "m", "e", "n", "t", "A", "P", "I">>
NsOwned == <<"N", "s", ":", ":", "O", "w", "n", "e", "d">>
NsLinearColor == <<"N", "s", ":", ":", "L", "i", "n", "e", "a", "r", "C", "o", "l", "o", "r">>
NsDone == <<"N", "s", ":", ":", "D", "o", "n", "e">>

\* The text of a qualified name.
RECURSIVE text(_)
text(name) == IF Len(name) = 0 THEN "" ELSE name[1] \o text(Tail(name))

-----------------------------------------------------------------------------
(* model/types.py: the type references.  Python's None (void, or an        *)
(* untyped pointee) is the record None.                                    *)

None == [tag |-> "None"]
ApiPrimitiveType(kind) == [tag |-> "Primitive", kind |-> kind]
ApiEnumRef(qualified_name) == [tag |-> "EnumRef", qualified_name |-> qualified_name]
ApiClassRef(qualified_name) == [tag |-> "ClassRef", qualified_name |-> qualified_name]
ApiValueTypeRef(qualified_name) ==
    [tag |-> "ValueTypeRef", qualified_name |-> qualified_name]
ApiCallbackRef(qualified_name) ==
    [tag |-> "CallbackRef", qualified_name |-> qualified_name]
ApiAnonymousCallback(return_type, parameters, signature) ==
    [tag |-> "AnonymousCallback", return_type |-> return_type,
     parameters |-> parameters, signature |-> signature]
ApiBitsetType(element_type, element_count) ==
    [tag |-> "BitsetType", element_type |-> element_type,
     element_count |-> element_count]
ApiEntityInstance(owner_qualified_name) ==
    [tag |-> "EntityInstance", owner_qualified_name |-> owner_qualified_name]
ApiConstantArray(element_type, element_count) ==
    [tag |-> "ConstantArray", element_type |-> element_type,
     element_count |-> element_count]
ApiStringType == [tag |-> "StringType"]
ApiOpaqueRef(qualified_name) == [tag |-> "OpaqueRef", qualified_name |-> qualified_name]
ApiPassByRef(const, ref_type, pointee) ==
    [tag |-> "PassByRef", const |-> const, ref_type |-> ref_type, pointee |-> pointee]

ApiPassByRefType == {"LVALUE_REF", "RVALUE_REF", "POINTER"}

\* PrimitiveTypeKind, with the FRUSTUM kind the generators name.
PrimitiveTypeKind ==
    {"UNEXPOSED", "BOOL", "UINT8", "INT8", "UINT16", "INT16", "UINT32", "INT32",
     "UINT64", "INT64", "SIZE_T", "FLOAT", "DOUBLE", "STD_STRING", "ENTITY",
     "SAMPLER_PARAMS", "LINEAR_COLOR", "LINEAR_COLOR_A", "MAT33_DOUBLE",
     "MAT33_FLOAT", "MAT44_DOUBLE", "MAT44_FLOAT", "VEC2_DOUBLE", "VEC2_FLOAT",
     "VEC3_DOUBLE", "VEC3_FLOAT", "VEC4_DOUBLE", "VEC4_FLOAT", "QUATERNION_FLOAT",
     "FRUSTUM"}

isinstance(x, tag) == x.tag = tag

-----------------------------------------------------------------------------
(* model/classes.py, model/interfaces.py                                   *)

ApiParameterModel(oid, name, type) == [oid |-> oid, name |-> name, type |-> type]
ApiMethod(oid, name, return_type, parameters) ==
    [oid |-> oid, name |-> name, return_type |-> return_type, parameters |-> parameters]
ApiConstructor(parameters) == [parameters |-> parameters]
ApiClass(qualified_name, destructible, constructors, methods, static_methods) ==
    [kind |-> "ApiClass", qualified_name |-> qualified_name,
     destructible |-> destructible, constructors |-> constructors,
     methods |-> methods, static_methods |-> static_methods]
ApiInterface(qualified_name, methods) ==
    [kind |-> "ApiInterface", qualified_name |-> qualified_name, methods |-> methods]


-----------------------------------------------------------------------------
(* generators/c_name_mangling.py                                           *)

CONSTRUCTOR_NAME == "Create"
DESTRUCTOR_NAME == "Destroy"

\* str.replace("::", "_"): left to right, non-overlapping.
RECURSIVE mangle_name(_)
mangle_name(name) ==
    IF Len(name) = 0 THEN ""
    ELSE IF Len(name) >= 2 /\ name[1] = ":" /\ name[2] = ":"
         THEN "_" \o mangle_name(SubSeq(name, 3, Len(name)))
         ELSE name[1] \o mangle_name(Tail(name))

\* str(int) for a non-negative int: its decimal digits.
DigitChars == <<"0", "1", "2", "3", "4", "5", "6", "7", "8", "9">>
RECURSIVE str(_)
str(n) == IF n < 10 THEN DigitChars[n + 1]
          ELSE str(n \div 10) \o DigitChars[(n % 10) + 1]

\* list.index(x): the 0-based position of the first element equal to x,
\* or -1 where Python raises ValueError.
list_index(list, x) ==
    IF \E i \in 1..Len(list) : list[i] = x
    THEN (CHOOSE i \in 1..Len(list) :
              list[i] = x /\ \A j \in 1..(i - 1) : list[j] # x) - 1
    ELSE -1

\* Mutant: the conflict set is gathered over every owner of the model.
other_methods_any_owner(class_model) ==
    owners.A.methods \o owners.B.methods

\* The methods resolve_overloaded_name looks at (lines 23-34).  The
\* synthetic ApiMethod objects are fresh; only their names and parameter
\* lists are read.
other_methods_of(class_model) ==
    IF class_model.kind = "ApiClass"
    THEN class_model.methods \o class_model.static_methods
         \o [i \in 1..Len(class_model.constructors) |->
                ApiMethod(<<"ctor", i>>, CONSTRUCTOR_NAME, None,
                          class_model.constructors[i].parameters)]
         \o (IF class_model.destructible
             THEN <<ApiMethod(<<"dtor", 1>>, DESTRUCTOR_NAME, None, <<>>)>>
             ELSE <<>>)
    ELSE class_model.methods

\* The loop of lines 35-37: the parameter lists of the methods of that name.
RECURSIVE conflicts_of(_, _)
conflicts_of(other_methods, method_name) ==
    IF Len(other_methods) = 0 THEN <<>>
    ELSE (IF Head(other_methods).name = method_name
          THEN <<Head(other_methods).parameters>> ELSE <<>>)
         \o conflicts_of(Tail(other_methods), method_name)

\* Mutant: the index is appended without the "+ 1" of line 42.
resolve_overloaded_name_zero_based(class_model, method_name, parameters) ==
    LET conflicts == conflicts_of(other_methods_of(class_model), method_name)
    IN  IF Len(conflicts) = 0 \/ (Len(conflicts) = 1 /\ conflicts[1] = parameters)
        THEN Ok(method_name)
        ELSE IF list_index(conflicts, parameters) < 0 THEN Raise("ValueError")
        ELSE Ok(method_name \o str(list_index(conflicts, parameters)))

\* Mutant: the first overload keeps the bare name whatever the number of
\* conflicts (the "len(conflicts) == 1" test of line 39 is lost).
resolve_overloaded_name_first_bare(class_model, method_name, parameters) ==
    LET conflicts == conflicts_of(other_methods_of(class_model), method_name)
    IN  IF Len(conflicts) = 0 \/ conflicts[1] = parameters
        THEN Ok(method_name)
        ELSE IF list_index(conflicts, parameters) < 0 THEN Raise("ValueError")
        ELSE Ok(method_name \o str(list_index(conflicts, parameters)))

resolve_overloaded_name(class_model, method_name, parameters) ==
    LET conflicts == conflicts_of(other_methods_of(class_model), method_name)
    IN  IF Len(conflicts) = 0 \/ (Len(conflicts) = 1 /\ conflicts[1] = parameters)
        THEN Ok(method_name)
        ELSE IF list_index(conflicts, parameters) < 0 THEN Raise("ValueError")
        ELSE Ok(method_name \o str(list_index(conflicts, parameters) + 1))

\* generators/c_delegates.py, DelegateFactory._create_delegate_name
create_delegate_name(class_model, method_name, parameters) ==
    LET r == resolve_overloaded_name(class_model, method_name, parameters)
    IN  IF r.ok THEN Ok(mangle_name(class_model.qualified_name) \o "_" \o r.value)
        ELSE r

\* generators/c.py, CGenerator._get_exported_method_name: the conflict set is
\* the ApiMethod objects themselves (instance then static methods), compared
\* by identity.
RECURSIVE named_methods(_, _)
named_methods(other_methods, method_name) ==
    IF Len(other_methods) = 0 THEN <<>>
    ELSE (IF Head(other_methods).name = method_name
          THEN <<Head(other_methods)>> ELSE <<>>)
         \o named_methods(Tail(other_methods), method_name)

get_exported_method_name(class_model, method_model) ==
    LET name_prefix == mangle_name(class_model.qualified_name) \o "_"
        other_methods == IF class_model.kind = "ApiClass"
                         THEN class_model.methods \o class_model.static_methods
                         ELSE class_model.methods
        conflicts == named_methods(other_methods, method_model.name)
    IN  IF Len(conflicts) = 0 \/ (Len(conflicts) = 1 /\ conflicts[1] = method_model)
        THEN Ok(name_prefix \o method_model.name)
        ELSE IF list_index(conflicts, method_model) < 0 THEN Raise("ValueError")
        ELSE Ok(name_prefix \o method_model.name
                    \o str(list_index(conflicts, method_model) + 1))

-----------------------------------------------------------------------------
(* Name resolution over whole owners.  Owner "A" is the owner under study  *)
(* (a class or an interface, built member by member in declaration order); *)
(* owner "B" is an unrelated class whose methods are added, removed and    *)
(* permuted.                                                               *)

MaxMembers == 3         \* members (methods + static methods + constructors) of A

\* Parameter lists compare by the identity of their parameters, so only
\* "empty" and "non-empty" differ; both are drawn.
ParamCounts == {0, 1}
MethodNames == {"value", "value1", DESTRUCTOR_NAME}
StaticMethodNames == {"value", CONSTRUCTOR_NAME}
OtherMethodNames == {"value", "value1"}

INT32 == ApiPrimitiveType("INT32")

FreshParameters(moid, n) ==
    [k \in 1..n |-> ApiParameterModel(<<moid, k>>, "p" \o str(k), INT32)]

\* No method is being emitted, nothing has been emitted.
\* generate() has not run, and the output directory holds none of its files.
NotGenerated == [kind |-> "none"]
NoFile == [exists |-> FALSE, content |-> <<>>]
EmptyDir == [conversions_h |-> NoFile, cfilament_h |-> NoFile, cfilament_cpp |-> NoFile]
IdleOutput == output_dir = EmptyDir /\ generated = NotGenerated

NoMethod == [oid |-> <<"none">>]
NoOutput == [kind |-> "none"]

\* parse_api has not run.
NotParsed == [kind |-> "none"]

\* The names of the last owner resolved; others_changed records that another
\* owner has changed since.
NoNames == [owner |-> "none", delegates |-> <<>>, exported |-> <<>>,
            others_changed |-> FALSE]

MemberCount(class_model) ==
    Len(class_model.methods)
    + (IF class_model.kind = "ApiClass"
       THEN Len(class_model.static_methods) + Len(class_model.constructors)
       ELSE 0)

\* The members a generator emits a delegate for, as the (name, parameters)
\* create_delegate resolves (c_delegates.py lines 54-72): methods and static
\* methods under their own name, constructors as "Create", the destructor of
\* a destructible class as a parameterless "Destroy".
Members(class_model) ==
    IF class_model.kind = "ApiClass"
    THEN [i \in 1..Len(class_model.methods) |->
             [name |-> class_model.methods[i].name,
              parameters |-> class_model.methods[i].parameters]]
         \o [i \in 1..Len(class_model.static_methods) |->
             [name |-> class_model.static_methods[i].name,
              parameters |-> class_model.static_methods[i].parameters]]
         \o [i \in 1..Len(class_model.constructors) |->
             [name |-> CONSTRUCTOR_NAME,
              parameters |-> class_model.constructors[i].parameters]]
         \o (IF class_model.destructible
             THEN <<[name |-> DESTRUCTOR_NAME, parameters |-> <<>>]>> ELSE <<>>)
    ELSE [i \in 1..Len(class_model.methods) |->
             [name |-> class_model.methods[i].name,
              parameters |-> class_model.methods[i].parameters]]

\* Forget the names of an owner whose members change.
NamesAfterChange(o) ==
    IF names.owner = o THEN NoNames
    ELSE IF names.owner = "none" THEN names
    ELSE [names EXCEPT !.others_changed = TRUE]

InitNames ==
    /\ \E d \in BOOLEAN, k \in {"ApiClass", "ApiInterface"} :
          owners = [A |-> IF k = "ApiClass"
                          THEN ApiClass(NsWidget, d, <<>>, <<>>, <<>>)
                          ELSE ApiInterface(NsWidget, <<>>),
                    B |-> ApiClass(NsOther, FALSE, <<>>, <<>>, <<>>)]
    /\ names = NoNames
    /\ method = NoMethod /\ out = NoOutput /\ emits = 0
    /\ IdleOutput
    /\ translation_unit = <<>> /\ model = NotParsed

AddMethod(name, n) ==
    /\ MemberCount(owners.A) < MaxMembers
    /\ LET moid == <<"A", "method", Len(owners.A.methods) + 1>>
           m == ApiMethod(moid, name, None, FreshParameters(moid, n))
       IN  owners' = [owners EXCEPT !.A.methods = Append(@, m)]
    /\ names' = NamesAfterChange("A")
    /\ UNCHANGED <<returnVars, parserVars, generatorVars>>

AddStaticMethod(name, n) ==
    /\ owners.A.kind = "ApiClass"
    /\ MemberCount(owners.A) < MaxMembers
    /\ LET moid == <<"A", "static", Len(owners.A.static_methods) + 1>>
           m == ApiMethod(moid, name, None, FreshParameters(moid, n))
       IN  owners' = [owners EXCEPT !.A.static_methods = Append(@, m)]
    /\ names' = NamesAfterChange("A")
    /\ UNCHANGED <<returnVars, parserVars, generatorVars>>

AddConstructor(n) ==
    /\ owners.A.kind = "ApiClass"
    /\ MemberCount(owners.A) < MaxMembers
    /\ LET moid == <<"A", "ctor", Len(owners.A.constructors) + 1>>
       IN  owners' = [owners EXCEPT !.A.constructors =
                         Append(@, ApiConstructor(FreshParameters(moid, n)))]
    /\ names' = NamesAfterChange("A")
    /\ UNCHANGED <<returnVars, parserVars, generatorVars>>

\* Changes to the unrelated owner B: its methods are drawn, in any order,
\* from a pool of method objects.
OtherMethodPool ==
    { ApiMethod(<<"B", "method", name>>, name, None, <<>>) : name \in OtherMethodNames }

AddOtherMethod(m) ==
    /\ \A i \in 1..Len(owners.B.methods) : owners.B.methods[i] # m
    /\ owners' = [owners EXCEPT !.B.methods = Append(@, m)]
    /\ names' = NamesAfterChange("B")
    /\ UNCHANGED <<returnVars, parserVars, generatorVars>>

RemoveOtherMethod(i) ==
    /\ i \in 1..Len(owners.B.methods)
    /\ owners' = [owners EXCEPT !.B.methods =
                      SubSeq(@, 1, i - 1) \o SubSeq(@, i + 1, Len(@))]
    /\ names' = NamesAfterChange("B")
    /\ UNCHANGED <<returnVars, parserVars, generatorVars>>

PermuteOtherMethods ==
    /\ Len(owners.B.methods) >= 2
    /\ owners' = [owners EXCEPT !.B.methods =
                      <<@[2], @[1]>> \o SubSeq(@, 3, Len(@))]
    /\ names' = NamesAfterChange("B")
    /\ UNCHANGED <<returnVars, parserVars, generatorVars>>

\* Every member of owner o is given its external name: by the delegate
\* factory (all members) and by the C generator (methods and static methods).
ResolveNames(o) ==
    /\ Len(Members(owners[o])) > 0
    /\ LET class_model == owners[o]
           members == Members(class_model)
           ms == IF class_model.kind = "ApiClass"
                 THEN class_model.methods \o class_model.static_methods
                 ELSE class_model.methods
       IN  names' =
             [owner |-> o,
              delegates |->
                 [i \in 1..Len(members) |->
                     create_delegate_name(class_model, members[i].name,
                                          members[i].parameters)],
              exported |->
                 [i \in 1..Len(ms) |-> get_exported_method_name(class_model, ms[i])],
              others_changed |-> FALSE]
    /\ UNCHANGED owners
    /\ UNCHANGED <<returnVars, parserVars, generatorVars>>

NextNames ==
    \/ \E name \in MethodNames, n \in ParamCounts : AddMethod(name, n)
    \/ \E name \in StaticMethodNames, n \in ParamCounts : AddStaticMethod(name, n)
    \/ \E n \in ParamCounts : AddConstructor(n)
    \/ \E m \in OtherMethodPool : AddOtherMethod(m)
    \/ \E i \in 1..Cardinality(OtherMethodPool) : RemoveOtherMethod(i)
    \/ PermuteOtherMethods
    \/ \E o \in {"A", "B"} : ResolveNames(o)

SpecNames == InitNames /\ [][NextNames]_vars

-----------------------------------------------------------------------------
(* Claims about the name resolver, checked under SpecNames.                *)

ExpectedPrefix(o) == IF o = "A" THEN "Ns_Widget_" ELSE "Ns_Other_"

\* The conflict set of a name, stated over the members of the owner.
ConflictSet(class_model, name) ==
    SelectSeq(Members(class_model), LAMBDA m : m.name = name)

\* The 1-based position of a parameter list in a conflict set (Python list
\* equality: element-wise, parameters by identity).
PositionIn(cs, parameters) ==
    CHOOSE k \in 1..Len(cs) :
        /\ cs[k].parameters = parameters
        /\ \A j \in 1..(k - 1) : cs[j].parameters # parameters

ExpectedName(class_model, m) ==
    LET cs == ConflictSet(class_model, m.name)
    IN  IF Len(cs) <= 1 THEN m.name
        ELSE m.name \o ToString(PositionIn(cs, m.parameters))

C2_NamesUnique ==
    names.owner # "none" =>
        \A i, j \in 1..Len(names.delegates) :
            i # j => names.delegates[i] # names.delegates[j]

\* The class of scenario A: constructor Widget(int), then value() and
\* value(int) as instance methods, nothing else.
ScenarioA ==
    /\ names.owner = "A"
    /\ owners.A.kind = "ApiClass"
    /\ ~owners.A.destructible
    /\ Len(owners.A.constructors) = 1
    /\ Len(owners.A.constructors[1].parameters) = 1
    /\ Len(owners.A.static_methods) = 0
    /\ Len(owners.A.methods) = 2
    /\ owners.A.methods[1].name = "value" /\ Len(owners.A.methods[1].parameters) = 0
    /\ owners.A.methods[2].name = "value" /\ Len(owners.A.methods[2].parameters) = 1

\* C3 (as claimed): in scenario A the first overload of value is unsuffixed
\* and the second is value1.
C3_ScenarioA_AsClaimed ==
    ScenarioA =>
        names.delegates = <<Ok("Ns_Widget_value"), Ok("Ns_Widget_value1"),
                            Ok("Ns_Widget_Create")>>

\* C3 (amended): in scenario A both overloads of value carry their 1-based
\* position, value1 and value2, and the only constructor is Create; the C
\* generator names the two methods the same way.
C3_ScenarioA ==
    ScenarioA =>
        /\ names.delegates = <<Ok("Ns_Widget_value1"), Ok("Ns_Widget_value2"),
                               Ok("Ns_Widget_Create")>>
        /\ names.exported = <<Ok("Ns_Widget_value1"), Ok("Ns_Widget_value2")>>

C3_Witness == ScenarioA

-----------------------------------------------------------------------------
(* generators/c_type_conversion.py: the ABI type converter.                *)

\* String building in which any part may have raised: the first part that
\* raised, else the concatenation.
RECURSIVE RCat(_)
RCat(parts) ==
    IF Len(parts) = 0 THEN Ok("")
    ELSE IF ~Head(parts).ok THEN Head(parts)
    ELSE LET rest == RCat(Tail(parts))
         IN  IF rest.ok THEN Ok(Head(parts).value \o rest.value) ELSE rest

_primitive_type_names ==
    [BOOL |-> "FBOOL", UINT8 |-> "uint8_t", INT8 |-> "int8_t",
     UINT16 |-> "uint16_t", INT16 |-> "int16_t", UINT32 |-> "uint32_t",
     INT32 |-> "int32_t", UINT64 |-> "uint64_t", INT64 |-> "int64_t",
     SIZE_T |-> "size_t", FLOAT |-> "float", DOUBLE |-> "double",
     ENTITY |-> "FENTITY", SAMPLER_PARAMS |-> "FSAMPLER_PARAMS",
     LINEAR_COLOR |-> "FLINEAR_COLOR", LINEAR_COLOR_A |-> "FLINEAR_COLOR_A",
     MAT33_DOUBLE |-> "FMAT33_DOUBLE", MAT33_FLOAT |-> "FMAT33_FLOAT",
     MAT44_DOUBLE |-> "FMAT44_DOUBLE", MAT44_FLOAT |-> "FMAT44_FLOAT",
     VEC2_DOUBLE |-> "FVEC2_DOUBLE", VEC2_FLOAT |-> "FVEC2_FLOAT",
     VEC3_DOUBLE |-> "FVEC3_DOUBLE", VEC3_FLOAT |-> "FVEC3_FLOAT",
     VEC4_DOUBLE |-> "FVEC4_DOUBLE", VEC4_FLOAT |-> "FVEC4_FLOAT",
     QUATERNION_FLOAT |-> "FQUATERNION_FLOAT", FRUSTUM |-> "FFRUSTUM"]

_primitive_type_names_filament ==
    [BOOL |-> "bool", UINT8 |-> "uint8_t", INT8 |-> "int8_t",
     UINT16 |-> "uint16_t", INT16 |-> "int16_t", UINT32 |-> "uint32_t",
     INT32 |-> "int32_t", UINT64 |-> "uint64_t", INT64 |-> "int64_t",
     SIZE_T |-> "size_t", FLOAT |-> "float", DOUBLE |-> "double",
     ENTITY |-> "utils::Entity",
     SAMPLER_PARAMS |-> "filament::driver::SamplerParams",
     LINEAR_COLOR |-> "filament::LinearColor",
     LINEAR_COLOR_A |-> "filament::LinearColorA",
     MAT33_DOUBLE |-> "math::mat3", MAT33_FLOAT |-> "math::mat3f",
     MAT44_DOUBLE |-> "math::mat4", MAT44_FLOAT |-> "math::mat4f",
     VEC2_DOUBLE |-> "math::double2", VEC2_FLOAT |-> "math::float2",
     VEC3_DOUBLE |-> "math::double3", VEC3_FLOAT |-> "math::float3",
     VEC4_DOUBLE |-> "math::double4", VEC4_FLOAT |-> "math::float4",
     QUATERNION_FLOAT |-> "math::quatf", FRUSTUM |-> "filament::Frustum"]

_force_cast_primitive_kinds ==
    {"FRUSTUM", "ENTITY", "MAT33_DOUBLE", "MAT33_FLOAT", "MAT44_DOUBLE",
     "MAT44_FLOAT", "VEC2_DOUBLE", "VEC2_FLOAT", "VEC3_DOUBLE", "VEC3_FLOAT",
     "VEC4_DOUBLE", "VEC4_FLOAT", "LINEAR_COLOR", "LINEAR_COLOR_A",
     "QUATERNION_FLOAT", "SAMPLER_PARAMS"}

_acceptable_value_return_types ==
    {"BOOL", "UINT8", "INT8", "UINT16", "INT16", "UINT32", "INT32", "UINT64",
     "INT64", "SIZE_T", "FLOAT", "DOUBLE"}

\* dict[key]: KeyError for a key the dict lacks.
dict_get(table, key) ==
    IF key \in DOMAIN table THEN Ok(table[key]) ELSE Raise("KeyError")

\* Mutant: every type that is not a primitive is passed through a pointer.
can_be_returned_primitives_only(return_type) ==
    IF isinstance(return_type, "Primitive")
    THEN return_type.kind \in _acceptable_value_return_types
    ELSE FALSE

\* ExpressionTypeConverter.can_be_returned
can_be_returned(return_type) ==
    IF isinstance(return_type, "Primitive")
    THEN return_type.kind \in _acceptable_value_return_types
    ELSE IF isinstance(return_type, "ValueTypeRef") THEN FALSE
    ELSE TRUE

\* ExpressionTypeConverter._get_type_repr
RECURSIVE _get_type_repr(_, _)
_get_type_repr(type_ref, api_surface) ==
    IF type_ref = None THEN Ok("void")
    ELSE IF isinstance(type_ref, "PassByRef") THEN
        IF isinstance(type_ref.pointee, "ClassRef")
        THEN Ok(mangle_name(type_ref.pointee.qualified_name))
        ELSE RCat(<<Ok(IF type_ref.const THEN "const " ELSE ""),
                    _get_type_repr(type_ref.pointee, TRUE),
                    Ok(IF api_surface \/ type_ref.ref_type = "POINTER"
                       THEN "*" ELSE "&")>>)
    ELSE IF isinstance(type_ref, "Primitive") THEN
        IF type_ref.kind = "UNEXPOSED" THEN Ok("void*")
        ELSE IF api_surface THEN dict_get(_primitive_type_names, type_ref.kind)
        ELSE dict_get(_primitive_type_names_filament, type_ref.kind)
    ELSE IF \/ isinstance(type_ref, "ClassRef") \/ isinstance(type_ref, "EnumRef")
            \/ isinstance(type_ref, "ValueTypeRef")
            \/ isinstance(type_ref, "CallbackRef") THEN
        IF api_surface THEN Ok(mangle_name(type_ref.qualified_name))
        ELSE Ok(text(type_ref.qualified_name))
    ELSE IF isinstance(type_ref, "BitsetType") THEN
        IF type_ref.element_type = "UINT32" /\ type_ref.element_count = 1
        THEN (IF api_surface THEN Ok("uint32_t") ELSE Ok("utils::bitset32"))
        ELSE Raise("RuntimeError: Currently no support for extended bitsets")
    ELSE IF isinstance(type_ref, "EntityInstance") THEN
        IF api_surface
        THEN Ok(mangle_name(type_ref.owner_qualified_name) \o "_Instance")
        ELSE Ok("utils::EntityInstance<" \o text(type_ref.owner_qualified_name) \o ">")
    ELSE IF isinstance(type_ref, "StringType") THEN Ok("const char*")
    ELSE IF isinstance(type_ref, "OpaqueRef") THEN Ok("void*")
    ELSE Raise("RuntimeError: Don't know how to represent type")

get_filament_type(type_ref) == _get_type_repr(type_ref, FALSE)
get_wrapper_type(type_ref) == _get_type_repr(type_ref, TRUE)

\* ExpressionTypeConverter.convert_in
convert_in(expression0, type) ==
    LET is_ref == isinstance(type, "PassByRef")
        expression == IF is_ref /\ type.ref_type = "LVALUE_REF"
                      THEN "*" \o expression0 ELSE expression0
        expression_is_ptr == is_ref /\ type.ref_type = "POINTER"
        underlying_type == IF is_ref THEN type.pointee ELSE type
        dont_know == Raise("RuntimeError: Don't know how to convert wrapper->filament")
    IN  IF isinstance(underlying_type, "EnumRef")
        THEN Ok("(" \o text(underlying_type.qualified_name) \o ")" \o expression)
        ELSE IF isinstance(underlying_type, "Primitive") THEN
            IF underlying_type.kind \in _force_cast_primitive_kinds
            THEN Ok("convertIn" \o _primitive_type_names[underlying_type.kind]
                      \o "(" \o expression \o ")")
            ELSE IF underlying_type.kind \in _acceptable_value_return_types
            THEN Ok(expression)
            ELSE dont_know
        ELSE IF isinstance(underlying_type, "ClassRef") /\ is_ref THEN
            IF type.ref_type = "POINTER"
            THEN Ok("(" \o text(underlying_type.qualified_name) \o "*)(" \o expression \o ")")
            ELSE IF type.ref_type = "LVALUE_REF"
            THEN Ok("(" \o text(underlying_type.qualified_name) \o "&)(" \o expression \o ")")
            ELSE IF type.ref_type = "RVALUE_REF"
            THEN Ok("std::move((" \o text(underlying_type.qualified_name) \o "&&)("
                      \o expression \o "))")
            ELSE dont_know
        ELSE IF isinstance(underlying_type, "ValueTypeRef")
        THEN Ok("convertIn(" \o expression \o ")")
        ELSE IF isinstance(type, "EntityInstance")
        THEN Ok("convertInEntityInstance<" \o text(type.owner_qualified_name) \o ">("
                  \o expression \o ")")
        ELSE IF isinstance(underlying_type, "BitsetType")
        THEN Ok("convertInBitset(" \o expression \o ")")
        ELSE IF isinstance(type, "StringType") THEN Ok(expression)
        ELSE IF underlying_type = None /\ expression_is_ptr THEN Ok(expression)
        ELSE IF /\ isinstance(underlying_type, "PassByRef") /\ is_ref
                /\ isinstance(underlying_type.pointee, "ClassRef") THEN
            IF type.ref_type = "POINTER" /\ underlying_type.ref_type = "POINTER"
            THEN Ok("(" \o text(underlying_type.pointee.qualified_name) \o "**)("
                      \o expression \o ")")
            ELSE dont_know
        ELSE IF isinstance(type, "CallbackRef")
        THEN Ok("(" \o text(type.qualified_name) \o ")" \o expression)
        ELSE IF isinstance(type, "OpaqueRef")
        THEN Ok("(" \o text(type.qualified_name) \o "*)" \o expression)
        ELSE dont_know

\* ExpressionTypeConverter.convert_out
convert_out(expression0, type) ==
    LET is_ref == isinstance(type, "PassByRef")
        expression == IF is_ref /\ type.ref_type = "LVALUE_REF"
                      THEN "&" \o expression0 ELSE expression0
        underlying_type == IF is_ref THEN type.pointee ELSE type
        dont_know == Raise("RuntimeError: Don't know how to convert filament->wrapper")
    IN  IF isinstance(underlying_type, "EnumRef")
        THEN RCat(<<Ok("("), _get_type_repr(underlying_type, TRUE), Ok(")" \o expression)>>)
        ELSE IF isinstance(underlying_type, "Primitive") THEN
            IF underlying_type.kind \in _force_cast_primitive_kinds
            THEN Ok("convertOut" \o _primitive_type_names[underlying_type.kind]
                      \o "(" \o expression \o ")")
            ELSE IF underlying_type.kind \in _acceptable_value_return_types
            THEN Ok(expression)
            ELSE dont_know
        ELSE IF isinstance(underlying_type, "ClassRef") /\ is_ref
        THEN Ok("(" \o mangle_name(underlying_type.qualified_name) \o ")("
                  \o expression \o ")")
        ELSE IF isinstance(underlying_type, "BitsetType")
        THEN Ok("convertOutBitset(" \o expression \o ")")
        ELSE IF isinstance(underlying_type, "ValueTypeRef")
        THEN Ok("convertOut(" \o expression \o ")")
        ELSE IF isinstance(type, "StringType") THEN Ok(expression)
        ELSE IF is_ref /\ underlying_type = None THEN Ok(expression)
        ELSE IF isinstance(type, "CallbackRef")
        THEN RCat(<<Ok("("), _get_type_repr(type, TRUE), Ok(")" \o expression)>>)
        ELSE IF isinstance(underlying_type, "OpaqueRef") THEN Ok(expression)
        ELSE IF isinstance(underlying_type, "EntityInstance")
        THEN Ok("convertOutEntityInstance(" \o expression \o ")")
        ELSE dont_know

-----------------------------------------------------------------------------
(* generators/c_delegates.py: the delegate factory.                        *)

THIS_PARAM_NAME == "self"

\* ", ".join(parts) over results: the first that raised, else the joined text.
RECURSIVE join_args(_)
join_args(parts) ==
    IF Len(parts) = 0 THEN Ok("")
    ELSE IF Len(parts) = 1 THEN Head(parts)
    ELSE RCat(<<Head(parts), Ok(", "), join_args(Tail(parts))>>)

\* The parameters of a signature, as text: "type name, type name".
RECURSIVE signature_parameters(_, _)
signature_parameters(method_parameters, first) ==
    IF Len(method_parameters) = 0 THEN Ok("")
    ELSE RCat(<<Ok(IF first THEN "" ELSE ", "),
                get_wrapper_type(Head(method_parameters).type),
                Ok(" " \o Head(method_parameters).name),
                signature_parameters(Tail(method_parameters), FALSE)>>)

\* DelegateFactory._create_signature
_create_signature(method_name, method_return_type, method_parameters) ==
    RCat(<<get_wrapper_type(method_return_type), Ok(" " \o method_name \o "("),
           signature_parameters(method_parameters, TRUE), Ok(")")>>)

\* Mutant: the appended parameter has the return type itself.
result_parameter_by_value(oid, return_type) ==
    ApiParameterModel(<<oid, 0>>, "result", return_type)

\* The parameter create_delegate appends for a return through a pointer.
result_parameter(oid, return_type) ==
    ApiParameterModel(<<oid, 0>>, "result",
                      ApiPassByRef(FALSE, "POINTER", return_type))

\* The owner as the code sees it once method_parameters has been appended to:
\* the members whose parameter list IS the list passed (the same list object,
\* "aliases": a set of <<"methods" or "static_methods", index>>) show the
\* appended list.
after_append(api_class, aliases, parameters_after) ==
    LET shown(list, which) ==
            [i \in 1..Len(list) |->
                IF <<which, i>> \in aliases
                THEN [list[i] EXCEPT !.parameters = parameters_after]
                ELSE list[i]]
    IN  IF api_class.kind = "ApiClass"
        THEN [api_class EXCEPT !.methods = shown(@, "methods"),
                               !.static_methods = shown(@, "static_methods")]
        ELSE [api_class EXCEPT !.methods = shown(@, "methods")]

\* DelegateFactory.create_delegate.  The value is the list method_parameters
\* as the call leaves it (the caller's list object, appended to in place at
\* lines 63-66) and what was written to declarations and implementations, or
\* the exception raised.  "call" numbers the call, to tell apart the
\* parameter objects of different calls.  Callers of the two method forward
\* types pass a method_name, so the check of line 56 never raises.  For
\* DESTRUCTOR no branch of lines 40-49 binds call_expression or return_type:
\* reading return_type at line 87 raises UnboundLocalError.
create_delegate(api_class, forward_type, method_parameters, aliases, method_name, method_return_type, call) ==
    LET args == join_args([i \in 1..Len(method_parameters) |->
                   convert_in(method_parameters[i].name, method_parameters[i].type)])
        is_method == forward_type \in {"METHOD", "STATIC_METHOD"}
        bound == forward_type # "DESTRUCTOR"
        name == IF forward_type = "CONSTRUCTOR" THEN CONSTRUCTOR_NAME
                ELSE IF forward_type = "DESTRUCTOR" THEN DESTRUCTOR_NAME
                ELSE method_name
        call_expression ==
            IF forward_type = "METHOD"
            THEN "((" \o text(api_class.qualified_name) \o "*)" \o THIS_PARAM_NAME
                   \o ")->" \o name \o "("
            ELSE IF forward_type = "STATIC_METHOD"
            THEN text(api_class.qualified_name) \o "::" \o name \o "("
            ELSE "new " \o text(api_class.qualified_name) \o "("
        return_type ==
            IF forward_type = "CONSTRUCTOR"
            THEN ApiPassByRef(FALSE, "POINTER", ApiClassRef(api_class.qualified_name))
            ELSE method_return_type
        return_by_pointer ==
            /\ is_method
            /\ method_return_type # None /\ ~can_be_returned(method_return_type)
        parameters_after ==
            IF return_by_pointer
            THEN Append(method_parameters,
                        result_parameter(<<"delegate", "result", call>>,
                                         method_return_type))
            ELSE method_parameters
        delegate_name ==
            create_delegate_name(after_append(api_class, aliases, parameters_after),
                                 name, parameters_after)
        this_param == ApiParameterModel(<<<<"delegate", "self", call>>, 0>>,
                          THIS_PARAM_NAME,
                          ApiPassByRef(FALSE, "POINTER",
                                       ApiClassRef(api_class.qualified_name)))
        signature_parameters_list ==
            IF forward_type = "METHOD" THEN <<this_param>> \o parameters_after
            ELSE parameters_after
        signature_return == IF return_by_pointer THEN None ELSE return_type
        method_signature ==
            _create_signature(delegate_name.value, signature_return,
                              signature_parameters_list)
        return_stmt == IF return_type = None THEN ""
                       ELSE IF return_by_pointer THEN "*result = " ELSE "return "
        body == IF return_type = None THEN Ok(call_expression \o args.value \o ")")
                ELSE convert_out(call_expression \o args.value \o ")", return_type)
    IN  IF ~args.ok THEN [parameters |-> method_parameters, result |-> args]
        ELSE IF ~delegate_name.ok
        THEN [parameters |-> parameters_after, result |-> delegate_name]
        ELSE IF ~bound
        THEN [parameters |-> parameters_after, result |-> Raise("UnboundLocalError")]
        ELSE IF ~method_signature.ok
        THEN [parameters |-> parameters_after, result |-> method_signature]
        ELSE IF ~body.ok THEN [parameters |-> parameters_after, result |-> body]
        ELSE [parameters |-> parameters_after,
              result |-> Ok([name |-> delegate_name.value,
                             return_type |-> signature_return,
                             return_spelling |-> get_wrapper_type(signature_return).value,
                             parameters |-> signature_parameters_list,
                             signature |-> method_signature.value,
                             return_stmt |-> return_stmt,
                             call_expression |-> return_stmt \o body.value])]

-----------------------------------------------------------------------------
(* generators/c.py: the C generator's own type spelling, return transform  *)
(* and signatures.                                                         *)

\* Mutant: SIZE_T is missing from the set.
_trivial_primitives_no_size_t ==
    {"BOOL", "UINT8", "INT8", "UINT16", "INT16", "UINT32", "INT32", "UINT64",
     "INT64", "FLOAT", "DOUBLE"}

_trivial_primitives ==
    {"BOOL", "UINT8", "INT8", "UINT16", "INT16", "UINT32", "INT32", "UINT64",
     "INT64", "SIZE_T", "FLOAT", "DOUBLE"}

\* c.py's tables: the external spellings are those of the converter; the
\* native ones lack SAMPLER_PARAMS.
c_primitive_type_names == _primitive_type_names

c_primitive_type_names_filament ==
    [k \in (DOMAIN _primitive_type_names_filament) \ {"SAMPLER_PARAMS"} |->
        _primitive_type_names_filament[k]]

c_force_cast_primitive_kinds ==
    {"FRUSTUM", "ENTITY", "MAT33_DOUBLE", "MAT33_FLOAT", "MAT44_DOUBLE",
     "MAT44_FLOAT", "VEC2_DOUBLE", "VEC2_FLOAT", "VEC3_DOUBLE", "VEC3_FLOAT",
     "VEC4_DOUBLE", "VEC4_FLOAT", "QUATERNION_FLOAT"}

_needs_return_value_transform(return_type) ==
    IF isinstance(return_type, "Primitive")
    THEN return_type.kind \notin _trivial_primitives
    ELSE IF isinstance(return_type, "ValueTypeRef") THEN TRUE
    ELSE FALSE

\* CGenerator._get_type_repr.  The last case is the repr of the type's
\* to_dict(), a Python dict text.
RECURSIVE c_get_type_repr(_, _)
c_get_type_repr(type_ref, api_surface) ==
    IF type_ref = None THEN Ok("void")
    ELSE IF isinstance(type_ref, "PassByRef") THEN
        RCat(<<Ok(IF type_ref.const THEN "const " ELSE ""),
               c_get_type_repr(type_ref.pointee, TRUE),
               Ok(IF api_surface \/ type_ref.ref_type = "POINTER" THEN "*" ELSE "&")>>)
    ELSE IF isinstance(type_ref, "Primitive") THEN
        IF type_ref.kind = "UNEXPOSED" THEN Ok("void*")
        ELSE IF api_surface THEN dict_get(c_primitive_type_names, type_ref.kind)
        ELSE dict_get(c_primitive_type_names_filament, type_ref.kind)
    ELSE IF \/ isinstance(type_ref, "ClassRef") \/ isinstance(type_ref, "EnumRef")
            \/ isinstance(type_ref, "ValueTypeRef")
            \/ isinstance(type_ref, "CallbackRef") THEN
        IF api_surface THEN Ok(mangle_name(type_ref.qualified_name))
        ELSE Ok(text(type_ref.qualified_name))
    ELSE IF isinstance(type_ref, "BitsetType") THEN
        IF type_ref.element_type = "UINT32" /\ type_ref.element_count = 1
        THEN (IF api_surface THEN Ok("uint32_t") ELSE Ok("utils::bitset32"))
        ELSE Raise("RuntimeError: Currently no support for extended bitsets")
    ELSE IF isinstance(type_ref, "EntityInstance") THEN
        IF api_surface
        THEN Ok(mangle_name(type_ref.owner_qualified_name) \o "_Instance")
        ELSE Ok("utils::EntityInstance<" \o text(type_ref.owner_qualified_name) \o ">")
    ELSE IF isinstance(type_ref, "StringType") THEN Ok("const char*")
    ELSE Ok("{'type': '" \o type_ref.tag \o "', ...}")

\* CGenerator._convert_in
c_convert_in(expression0, type) ==
    LET is_ref == isinstance(type, "PassByRef")
        expression == IF is_ref /\ type.ref_type = "LVALUE_REF"
                      THEN "*" \o expression0 ELSE expression0
        underlying_type == IF is_ref THEN type.pointee ELSE type
    IN  IF isinstance(underlying_type, "EnumRef")
        THEN RCat(<<Ok("("), c_get_type_repr(underlying_type, FALSE),
                    Ok(")" \o expression)>>)
        ELSE IF /\ isinstance(underlying_type, "Primitive")
                /\ underlying_type.kind \in c_force_cast_primitive_kinds
        THEN Ok("convertIn(" \o expression \o ")")
        ELSE Ok(expression)

\* CGenerator._convert_out
c_convert_out(expression0, type) ==
    LET is_ref == isinstance(type, "PassByRef")
        expression == IF is_ref /\ type.ref_type = "LVALUE_REF"
                      THEN "&" \o expression0 ELSE expression0
        underlying_type == IF is_ref THEN type.pointee ELSE type
    IN  IF isinstance(underlying_type, "EnumRef")
        THEN RCat(<<Ok("("), c_get_type_repr(underlying_type, TRUE),
                    Ok(")" \o expression)>>)
        ELSE IF /\ isinstance(underlying_type, "Primitive")
                /\ underlying_type.kind \in c_force_cast_primitive_kinds
        THEN Ok("convertOut(" \o expression \o ")")
        ELSE Ok(expression)

\* The parameters of a C generator signature, as text.
RECURSIVE c_signature_parameters(_, _)
c_signature_parameters(method_parameters, first) ==
    IF Len(method_parameters) = 0 THEN Ok("")
    ELSE RCat(<<Ok(IF first THEN "" ELSE ", "),
                c_get_type_repr(Head(method_parameters).type, TRUE),
                Ok(" " \o Head(method_parameters).name),
                c_signature_parameters(Tail(method_parameters), FALSE)>>)

\* CGenerator._create_method_header: the list method_parameters as the call
\* leaves it, and the (header, trailing_return_value) returned or the
\* exception raised.
_create_method_header(parent_class, method_model, method_parameters, call) ==
    LET method_name == get_exported_method_name(parent_class, method_model)
        trailing_return_value == _needs_return_value_transform(method_model.return_type)
        parameters_after ==
            IF trailing_return_value
            THEN Append(method_parameters,
                        result_parameter(<<"header", "result", call>>, method_model.return_type))
            ELSE method_parameters
        header ==
            RCat(<<IF trailing_return_value THEN Ok("void")
                   ELSE c_get_type_repr(method_model.return_type, TRUE),
                   Ok(" " \o method_name.value \o "("),
                   c_signature_parameters(parameters_after, TRUE), Ok(")")>>)
    IN  IF ~method_name.ok THEN [parameters |-> method_parameters, result |-> method_name]
        ELSE IF ~header.ok THEN [parameters |-> parameters_after, result |-> header]
        ELSE [parameters |-> parameters_after,
              result |-> Ok([name |-> method_name.value,
                             return_type |-> IF trailing_return_value THEN None
                                             ELSE method_model.return_type,
                             return_spelling |->
                                 IF trailing_return_value THEN "void"
                                 ELSE c_get_type_repr(method_model.return_type, TRUE).value,
                             parameters |-> parameters_after,
                             signature |-> header.value,
                             trailing_return_value |-> trailing_return_value])]

\* CGenerator._get_function_pointer_decl
_get_function_pointer_decl(name, return_type, method_parameters, call) ==
    LET trailing_return_value == _needs_return_value_transform(return_type)
        parameters_after ==
            IF trailing_return_value
            THEN Append(method_parameters,
                        result_parameter(<<"function_pointer", "result", call>>, return_type))
            ELSE method_parameters
        decl ==
            RCat(<<IF trailing_return_value THEN Ok("void")
                   ELSE c_get_type_repr(return_type, TRUE),
                   Ok("(*" \o name \o ")("),
                   c_signature_parameters(parameters_after, TRUE), Ok(")")>>)
    IN  IF ~decl.ok THEN [parameters |-> parameters_after, result |-> decl]
        ELSE [parameters |-> parameters_after,
              result |-> Ok([name |-> name,
                             return_type |-> IF trailing_return_value THEN None
                                             ELSE return_type,
                             return_spelling |->
                                 IF trailing_return_value THEN "void"
                                 ELSE c_get_type_repr(return_type, TRUE).value,
                             parameters |-> parameters_after,
                             signature |-> decl.value,
                             trailing_return_value |-> trailing_return_value])]

\* CGenerator._generate_methods, the body of the loop over api_class.methods:
\* the header is built from a copy of the method's parameters with the self
\* parameter put first; the implementation forwards to the C++ method.
_generate_methods_method(api_class, method_model, call) ==
    LET this_param == ApiParameterModel(<<<<"header", "self", call>>, 0>>, "self",
                          ApiPassByRef(FALSE, "POINTER",
                                       ApiClassRef(api_class.qualified_name)))
        header == _create_method_header(api_class, method_model,
                                        <<this_param>> \o method_model.parameters, call)
        args == join_args([i \in 1..Len(method_model.parameters) |->
                   c_convert_in(method_model.parameters[i].name,
                                method_model.parameters[i].type)])
        call_expression == "_self->" \o method_model.name \o "(" \o args.value \o ")"
        return_type == method_model.return_type
        return_stmt == IF return_type = None THEN ""
                       ELSE IF header.result.value.trailing_return_value
                       THEN "*result = " ELSE "return "
        body == IF return_type = None THEN Ok(call_expression)
                ELSE c_convert_out(call_expression, return_type)
    IN  IF ~header.result.ok
        THEN [parameters |-> method_model.parameters, result |-> header.result]
        ELSE IF ~args.ok THEN [parameters |-> method_model.parameters, result |-> args]
        ELSE IF ~body.ok THEN [parameters |-> method_model.parameters, result |-> body]
        ELSE [parameters |-> method_model.parameters,
              result |-> Ok([name |-> header.result.value.name,
                             return_type |-> header.result.value.return_type,
                             return_spelling |-> header.result.value.return_spelling,
                             parameters |-> header.result.value.parameters,
                             signature |-> header.result.value.signature,
                             return_stmt |-> return_stmt,
                             call_expression |-> return_stmt \o body.value])]

\* CGenerator._generate_methods, the body of the loop over
\* api_class.static_methods: the header is built from method.parameters
\* itself, and only the declaration is emitted.
_generate_methods_static_method(api_class, method_model, call) ==
    LET header == _create_method_header(api_class, method_model,
                                        method_model.parameters, call)
    IN  IF ~header.result.ok THEN header
        ELSE [parameters |-> header.parameters,
              result |-> Ok([name |-> header.result.value.name,
                             return_type |-> header.result.value.return_type,
                             return_spelling |-> header.result.value.return_spelling,
                             parameters |-> header.result.value.parameters,
                             signature |-> header.result.value.signature,
                             return_stmt |-> "none",
                             call_expression |-> "none"])]

-----------------------------------------------------------------------------
(* The generators at work on one method, callback or interface method of   *)
(* every return type.                                                      *)

MaxEmits == 2

\* The type references of model/types.py, one of each shape, and references
\* to them.
BaseTypes ==
    {ApiPrimitiveType(k) : k \in PrimitiveTypeKind}
    \cup {ApiEnumRef(NsMode), ApiClassRef(NsWidget), ApiValueTypeRef(NsBox),
          ApiCallbackRef(NsFn), ApiAnonymousCallback(None, <<>>, "void (*)()"),
          ApiBitsetType("UINT32", 1), ApiBitsetType("UINT32", 2),
          ApiEntityInstance(NsWidget), ApiStringType, ApiOpaqueRef(NsHidden),
          ApiConstantArray(INT32, 2)}

TypeRefs ==
    BaseTypes
    \cup {ApiPassByRef(c, r, p) : c \in BOOLEAN, r \in ApiPassByRefType,
                                 p \in BaseTypes \cup {None}}
    \cup {ApiPassByRef(FALSE, "POINTER",
                       ApiPassByRef(FALSE, "POINTER", ApiClassRef(NsWidget)))}

ReturnTypes == TypeRefs \cup {None}

Roles == {"method", "static_method", "callback", "interface_method"}

\* The owner of the method being emitted.
OwnerOf(m) ==
    LET method_model == ApiMethod(m.oid, m.name, m.return_type, m.parameters)
    IN  IF m.role = "method"
        THEN ApiClass(NsWidget, FALSE, <<>>, <<method_model>>, <<>>)
        ELSE IF m.role = "static_method"
        THEN ApiClass(NsWidget, FALSE, <<>>, <<>>, <<method_model>>)
        ELSE ApiInterface(NsWidget, <<method_model>>)

Emitted(kind, alias, r) ==
    [kind |-> kind, alias |-> alias, return_type |-> method.return_type,
     given |-> method.parameters, after |-> r.parameters, result |-> r.result]

InitReturn ==
    /\ owners = [A |-> ApiClass(NsWidget, FALSE, <<>>, <<>>, <<>>),
                 B |-> ApiClass(NsOther, FALSE, <<>>, <<>>, <<>>)]
    /\ names = NoNames
    /\ \E role \in Roles, t \in ReturnTypes, n \in ParamCounts :
          method = [oid |-> <<"W", role, 1>>, role |-> role, name |-> "value",
                    return_type |-> t,
                    parameters |-> FreshParameters(<<"W", role, 1>>, n)]
    /\ out = NoOutput
    /\ emits = 0
    /\ translation_unit = <<>> /\ model = NotParsed
    /\ IdleOutput

\* A caller of DelegateFactory.create_delegate for a method or a static
\* method: it passes the method's own parameter list (alias) or a copy.
CreateDelegate(alias) ==
    /\ emits < MaxEmits
    /\ method.role \in {"method", "static_method"}
    /\ LET forward_type == IF method.role = "method" THEN "METHOD"
                           ELSE "STATIC_METHOD"
           aliases == IF ~alias THEN {}
                      ELSE IF method.role = "method" THEN {<<"methods", 1>>}
                      ELSE {<<"static_methods", 1>>}
           r == create_delegate(OwnerOf(method), forward_type, method.parameters,
                                aliases, method.name, method.return_type, emits)
       IN  /\ out' = Emitted("create_delegate", alias, r)
           /\ method' = IF alias THEN [method EXCEPT !.parameters = r.parameters]
                        ELSE method
    /\ emits' = emits + 1
    /\ UNCHANGED <<namesVars, parserVars, generatorVars>>

\* CGenerator._generate_methods for the method.
GenerateMethod ==
    /\ emits < MaxEmits
    /\ method.role \in {"method", "static_method"}
    /\ LET method_model == ApiMethod(method.oid, method.name, method.return_type,
                                     method.parameters)
           r == IF method.role = "method"
                THEN _generate_methods_method(OwnerOf(method), method_model, emits)
                ELSE _generate_methods_static_method(OwnerOf(method), method_model,
                                                     emits)
       IN  /\ out' = Emitted("_generate_methods", method.role = "static_method", r)
           /\ method' = [method EXCEPT !.parameters = r.parameters]
    /\ emits' = emits + 1
    /\ UNCHANGED <<namesVars, parserVars, generatorVars>>

\* CGenerator._generate_header, the typedef of a callback.
DeclareCallback ==
    /\ emits < MaxEmits
    /\ method.role = "callback"
    /\ LET r == _get_function_pointer_decl(mangle_name(NsFn), method.return_type,
                                           method.parameters, emits)
       IN  /\ out' = Emitted("callback", TRUE, r)
           /\ method' = [method EXCEPT !.parameters = r.parameters]
    /\ emits' = emits + 1
    /\ UNCHANGED <<namesVars, parserVars, generatorVars>>

\* CGenerator._generate_header, the typedef of an interface method: the
\* declaration is built from method.parameters, not from the copy that got
\* the user argument.
DeclareInterfaceMethod ==
    /\ emits < MaxEmits
    /\ method.role = "interface_method"
    /\ LET method_model == ApiMethod(method.oid, method.name, method.return_type,
                                     method.parameters)
           method_name == get_exported_method_name(OwnerOf(method), method_model)
           r == IF method_name.ok
                THEN _get_function_pointer_decl(method_name.value, method.return_type,
                                                method.parameters, emits)
                ELSE [parameters |-> method.parameters, result |-> method_name]
       IN  /\ out' = Emitted("interface", TRUE, r)
           /\ method' = [method EXCEPT !.parameters = r.parameters]
    /\ emits' = emits + 1
    /\ UNCHANGED <<namesVars, parserVars, generatorVars>>

NextReturn ==
    \/ \E alias \in BOOLEAN : CreateDelegate(alias)
    \/ GenerateMethod
    \/ DeclareCallback
    \/ DeclareInterfaceMethod

SpecReturn == InitReturn /\ [][NextReturn]_vars

-----------------------------------------------------------------------------
(* The return transform.                                                   *)

TrivialScalarKinds ==
    {"BOOL", "UINT8", "INT8", "UINT16", "INT16", "UINT32", "INT32", "UINT64",
     "INT64", "SIZE_T", "FLOAT", "DOUBLE"}

IsTrivialScalar(t) == isinstance(t, "Primitive") /\ t.kind \in TrivialScalarKinds

\* create_delegate has decided how to return a value of some type.
DelegateDecided == out.kind = "create_delegate" /\ out.return_type # None

\* C5 as stated: can_be_returned(t) is true exactly when t is a trivial scalar
\* primitive, and false for every other type reference.
C5_TrivialScalarsOnly ==
    DelegateDecided =>
        (can_be_returned(out.return_type) <=> IsTrivialScalar(out.return_type))

\* C5, amended: can_be_returned(t) is false exactly when t is a Primitive of a
\* kind that is not a trivial scalar, or a ValueTypeRef; it is true for the
\* trivial scalars and for every type reference that is neither a Primitive
\* nor a ValueTypeRef.
C5_CanBeReturned ==
    DelegateDecided =>
        (~can_be_returned(out.return_type)
            <=> \/ isinstance(out.return_type, "Primitive")
                   /\ ~IsTrivialScalar(out.return_type)
                \/ isinstance(out.return_type, "ValueTypeRef"))

\* An enum is returned by value: the delegate's body uses "return".
C5_Witness ==
    /\ DelegateDecided
    /\ out.return_type = ApiEnumRef(NsMode)
    /\ out.result.ok
    /\ out.result.value.return_stmt = "return "

\* A signature and, where one is emitted, a body have been generated for a
\* method or static method that returns a value.
MethodEmitted ==
    /\ out.kind \in {"create_delegate", "_generate_methods"}
    /\ out.return_type # None
    /\ out.result.ok

HasBody == out.result.value.return_stmt # "none"

\* The external spelling of a type, by the generator that emitted the output.
ExternalSpelling(t) ==
    IF out.kind = "create_delegate" THEN get_wrapper_type(t).value
    ELSE c_get_type_repr(t, TRUE).value

\* C6: for a method or static method with non-void return type t, if
\* can_be_returned(t) is false the generated signature returns void, its last
\* parameter is named result and has type pointer-to-t, and the body assigns
\* through *result; if it is true the signature returns the external spelling
\* of t, has no parameter named result (the parameters are the method's own,
\* after self for an instance method), and the body uses return.
C6_ReturnTransform ==
    MethodEmitted =>
        LET v == out.result.value
            t == out.return_type
        IN  IF ~can_be_returned(t)
            THEN /\ v.return_type = None
                 /\ v.return_spelling = "void"
                 /\ Len(v.parameters) > 0
                 /\ v.parameters[Len(v.parameters)].name = "result"
                 /\ v.parameters[Len(v.parameters)].type
                        = ApiPassByRef(FALSE, "POINTER", t)
                 /\ HasBody => v.return_stmt = "*result = "
            ELSE /\ v.return_type = t
                 /\ v.return_spelling = ExternalSpelling(t)
                 /\ \A i \in 1..Len(v.parameters) : v.parameters[i].name # "result"
                 /\ Len(v.parameters)
                        = Len(out.given) + (IF method.role = "method" THEN 1 ELSE 0)
                 /\ HasBody => v.return_stmt = "return "

\* A delegate returning a three-float vector through the result pointer.
C6_Witness ==
    /\ MethodEmitted
    /\ out.kind = "create_delegate"
    /\ out.return_type = ApiPrimitiveType("VEC3_FLOAT")
    /\ out.result.value.return_stmt = "*result = "
    /\ out.result.value.signature
          = "void Ns_Widget_value(Ns_Widget self, FVEC3_FLOAT* result)"

\* C7: for every return type t, void included, the predicate of callback
\* typedefs and interface function pointers, _needs_return_value_transform(t),
\* is true exactly when the predicate of method and static method delegates,
\* can_be_returned(t), is false.
C7_SameDecisionEverywhere ==
    out.kind # "none" =>
        (_needs_return_value_transform(out.return_type)
            <=> ~can_be_returned(out.return_type))

\* A callback typedef that returns a value type through the result pointer.
C7_Witness ==
    /\ out.kind = "callback"
    /\ out.return_type = ApiValueTypeRef(NsBox)
    /\ out.result.ok
    /\ out.result.value.trailing_return_value
    /\ ~can_be_returned(out.return_type)

-----------------------------------------------------------------------------
(* model/enums.py, model/value_types.py, model/__init__.py                 *)

ApiEnum(qualified_name, base_type, constants) ==
    [qualified_name |-> qualified_name, base_type |-> base_type,
     constants |-> constants]

ApiValueTypeField(name, type) == [name |-> name, type |-> type]

ApiValueType(qualified_name, fields, union_field) ==
    [qualified_name |-> qualified_name, fields |-> fields,
     union_field |-> union_field]

ApiCallback(qualified_name, return_type, parameters) ==
    [qualified_name |-> qualified_name, return_type |-> return_type,
     parameters |-> parameters]

ApiModel ==
    [classes |-> <<>>, enums |-> <<>>, value_types |-> <<>>,
     interfaces |-> <<>>, callbacks |-> <<>>]

-----------------------------------------------------------------------------
(* settings.py, with the names of this model's declarations.               *)

settings_public_apis == {NsWidget, NsOther, NsMid}
settings_interfaces == {NsListener}
settings_value_types == {NsBox}
settings_hidden_apis == {NsHidden}
settings_borrowed_obj_superclass == NsFilamentAPI
settings_typedef_to_primitive_map == [x \in {NsLinearColor} |-> "LINEAR_COLOR"]

-----------------------------------------------------------------------------
(* libclang's view of the headers: types and cursors.  A cursor's          *)
(* qualified_name is what _get_qualified_name returns for it.              *)

ClangType(kind, const) == [kind |-> kind, const |-> const]
ClangEnumType(declaration, const) ==
    [kind |-> "ENUM", const |-> const, declaration |-> declaration]
ClangRecordType(declaration, const) ==
    [kind |-> "RECORD", const |-> const, declaration |-> declaration]
ClangPointee(kind, pointee, const) ==
    [kind |-> kind, const |-> const, pointee |-> pointee]
ClangArrayType(element_type, size) ==
    [kind |-> "CONSTANTARRAY", const |-> FALSE, element_type |-> element_type,
     size |-> size]
\* A function prototype: get_result(), argument_types() and the spelling.
ClangFunctionProto(result, argument_types, spelling) ==
    [kind |-> "FUNCTIONPROTO", const |-> FALSE, result |-> result,
     argument_types |-> argument_types, spelling |-> spelling]
\* A typedef: its spelling, which is the qualified name of its declaration,
\* get_canonical(), and the PARM_DECL children of the declaration.
ClangTypedefType(spelling, canonical, children) ==
    [kind |-> "TYPEDEF", const |-> FALSE, spelling |-> spelling,
     canonical |-> canonical,
     declaration |-> [kind |-> "TYPEDEF_DECL", children |-> children,
                      qualified_name |-> spelling]]

NoDefinition == [kind |-> "none"]

Cursor(kind, children) == [kind |-> kind, children |-> children]
TypeRefCursor(definition) ==
    [kind |-> "TYPE_REF", children |-> <<>>, definition |-> definition]
ParmDecl(displayname, type) ==
    [kind |-> "PARM_DECL", children |-> <<>>, displayname |-> displayname,
     type |-> type]
FieldDecl(spelling, type) ==
    [kind |-> "FIELD_DECL", children |-> <<>>, spelling |-> spelling, type |-> type]
\* ctor is "default", "copy", "move" or "other": what is_default_constructor,
\* is_copy_constructor and is_move_constructor answer.
ConstructorCursor(ctor, access_specifier, children) ==
    [kind |-> "CONSTRUCTOR", children |-> children, ctor |-> ctor,
     access_specifier |-> access_specifier]
DestructorCursor(access_specifier) ==
    [kind |-> "DESTRUCTOR", children |-> <<>>, access_specifier |-> access_specifier]
MethodCursor(spelling, is_static_method, access_specifier, result_type, children) ==
    [kind |-> "CXX_METHOD", children |-> children, spelling |-> spelling,
     is_static_method |-> is_static_method, access_specifier |-> access_specifier,
     annotations |-> {}, result_type |-> result_type]
ClassCursor(qualified_name, children) ==
    [kind |-> "CLASS_DECL", children |-> children, qualified_name |-> qualified_name,
     is_definition |-> TRUE]
StructCursor(qualified_name, children) ==
    [kind |-> "STRUCT_DECL", children |-> children, qualified_name |-> qualified_name,
     is_definition |-> TRUE]
BaseSpecifier(definition) == Cursor("CXX_BASE_SPECIFIER", <<TypeRefCursor(definition)>>)
EnumCursor(qualified_name, enum_type) ==
    [kind |-> "ENUM_DECL", children |-> <<>>, qualified_name |-> qualified_name,
     is_definition |-> TRUE, enum_type |-> enum_type]

-----------------------------------------------------------------------------
(* apiparser.py.  A Python local variable holds a value computed once;     *)
(* where that value is used repeatedly it is bound as the one element of a *)
(* set: CHOOSE r \in {e(v) : v \in {value}} : TRUE is e(value).             *)

\* The value of a function that returns a list or None.
List(items) == [tag |-> "list", items |-> items]

ATTR_HIDE_FROM_SPEC == "hide_from_spec"

_primitive_type_map ==
    [BOOL |-> "BOOL", SCHAR |-> "INT8", CHAR_S |-> "INT8", UCHAR |-> "UINT8",
     SHORT |-> "INT16", USHORT |-> "UINT16", INT |-> "INT32", UINT |-> "UINT32",
     LONGLONG |-> "INT64", ULONGLONG |-> "UINT64", FLOAT |-> "FLOAT",
     DOUBLE |-> "DOUBLE"]

\* _get_base_classes: the function returns inside the loop, at the first
\* CXX_BASE_SPECIFIER child.
RECURSIVE _get_base_classes(_, _)
_get_base_classes(cursor, include_transitive) ==
    LET specifiers == SelectSeq(cursor.children,
                                LAMBDA c : c.kind = "CXX_BASE_SPECIFIER")
    IN  IF Len(specifiers) = 0 THEN {}
        ELSE LET child == specifiers[1]
                 base_defs ==
                     {child.children[i].definition :
                        i \in {j \in 1..Len(child.children) :
                                 /\ child.children[j].kind \in {"TYPE_REF", "TEMPLATE_REF"}
                                 /\ child.children[j].definition # NoDefinition}}
             IN  UNION {{base_def.qualified_name}
                          \cup (IF include_transitive
                                THEN _get_base_classes(base_def, TRUE) ELSE {}) :
                        base_def \in base_defs}

_get_public_constructors(cursor) ==
    LET base_classes == _get_base_classes(cursor, TRUE)
        considered == SelectSeq(cursor.children,
                          LAMBDA child : /\ child.kind = "CONSTRUCTOR"
                                         /\ child.ctor \notin {"copy", "move"})
        explicit_default_constructor_found ==
            \E i \in 1..Len(considered) : considered[i].ctor = "default"
        constructors == SelectSeq(considered,
                            LAMBDA child : child.access_specifier = "PUBLIC")
    IN  IF settings_borrowed_obj_superclass \in base_classes THEN None
        ELSE IF explicit_default_constructor_found /\ Len(constructors) = 0 THEN None
        ELSE List(constructors)

\* Mutant: only the first base specifier is looked at.
RECURSIVE _is_destructible_first_base(_)
_is_destructible_first_base(cursor) ==
    LET children == cursor.children
        specifiers == SelectSeq(children, LAMBDA c : c.kind = "CXX_BASE_SPECIFIER")
        has_non_destructible_baseclass ==
            /\ Len(specifiers) > 0
            /\ ~_is_destructible_first_base(specifiers[1].children[1].definition)
        destructors == SelectSeq(children, LAMBDA c : c.kind = "DESTRUCTOR")
    IN  IF \E i \in 1..Len(destructors) : destructors[i].access_specifier # "PUBLIC"
        THEN FALSE
        ELSE IF has_non_destructible_baseclass THEN Len(destructors) > 0
        ELSE TRUE

RECURSIVE _is_destructible(_)
_is_destructible(cursor) ==
    LET children == cursor.children
        base_defs ==
            UNION {{children[i].children[k].definition :
                      k \in {j \in 1..Len(children[i].children) :
                               /\ children[i].children[j].kind
                                      \in {"TYPE_REF", "TEMPLATE_REF"}
                               /\ children[i].children[j].definition # NoDefinition}} :
                   i \in {j \in 1..Len(children) :
                            children[j].kind = "CXX_BASE_SPECIFIER"}}
        has_non_destructible_baseclass ==
            \E base_def \in base_defs : ~_is_destructible(base_def)
        destructors == SelectSeq(children, LAMBDA c : c.kind = "DESTRUCTOR")
        explicit_public_destructor == Len(destructors) > 0
    IN  IF \E i \in 1..Len(destructors) : destructors[i].access_specifier # "PUBLIC"
        THEN FALSE
        ELSE IF has_non_destructible_baseclass THEN explicit_public_destructor
        ELSE TRUE

\* ApiModelParser._build_type_model, the type it returns: for void, enums,
\* typedefs, the primitive kinds, references, pointers, records, unexposed
\* types and constant arrays.  A typedef of a function pointer is answered by
\* _build_callback_type with a reference to the callback of that name.
RECURSIVE _build_type_model(_)
_build_type_model(type) ==
    IF type.kind = "VOID" THEN None
    ELSE IF type.kind = "ENUM" THEN ApiEnumRef(type.declaration)
    ELSE IF type.kind = "TYPEDEF" THEN
        IF type.spelling \in DOMAIN settings_typedef_to_primitive_map
        THEN ApiPrimitiveType(settings_typedef_to_primitive_map[type.spelling])
        ELSE IF /\ type.canonical.kind = "POINTER"
                /\ type.canonical.pointee.kind = "FUNCTIONPROTO"
        THEN ApiCallbackRef(type.declaration.qualified_name)
        ELSE _build_type_model(type.canonical)
    ELSE IF type.kind \in DOMAIN _primitive_type_map
    THEN ApiPrimitiveType(_primitive_type_map[type.kind])
    ELSE IF type.kind = "LVALUEREFERENCE"
    THEN ApiPassByRef(type.pointee.const, "LVALUE_REF", _build_type_model(type.pointee))
    ELSE IF type.kind = "RVALUEREFERENCE"
    THEN ApiPassByRef(type.const, "RVALUE_REF", _build_type_model(type.pointee))
    ELSE IF type.kind = "POINTER" THEN
        IF type.pointee.kind = "FUNCTIONPROTO"
        THEN ApiAnonymousCallback(
                 _build_type_model(type.pointee.result),
                 [k \in 1..Len(type.pointee.argument_types) |->
                    _build_type_model(type.pointee.argument_types[k])],
                 type.pointee.spelling)
        ELSE IF type.pointee.kind = "CHAR_S" /\ type.pointee.const THEN ApiStringType
        ELSE LET pointee_model == _build_type_model(type.pointee)
             IN  IF /\ isinstance(pointee_model, "ClassRef")
                    /\ pointee_model.qualified_name \in settings_hidden_apis
                 THEN ApiOpaqueRef(pointee_model.qualified_name)
                 ELSE ApiPassByRef(type.pointee.const, "POINTER", pointee_model)
    ELSE IF type.kind = "RECORD" THEN
        IF type.declaration \in settings_value_types
        THEN ApiValueTypeRef(type.declaration)
        ELSE ApiClassRef(type.declaration)
    ELSE IF type.kind = "UNEXPOSED" THEN ApiPrimitiveType("UNEXPOSED")
    ELSE ApiConstantArray(_build_type_model(type.element_type), type.size)

\* ApiModelParser._build_method_parameters_models; oid is the identity of the
\* method or constructor the parameters are built for.
_build_method_parameters_models(method_cursor, oid) ==
    LET decls == SelectSeq(method_cursor.children, LAMBDA c : c.kind = "PARM_DECL")
    IN  [k \in 1..Len(decls) |->
            ApiParameterModel(<<oid, k>>, decls[k].displayname,
                              _build_type_model(decls[k].type))]

\* ApiModelParser._build_callback_type and _build_type_model, what they do to
\* self._model.callbacks: the callbacks after the type has been resolved.  A
\* typedef of a function pointer looks its name up first, resolves the return
\* type and the parameters, and then saves the callback unless it was found.
RECURSIVE _build_callback_type(_, _), types_callbacks(_, _)

\* Mutant: the callback is saved whether or not its name was found.
_build_callback_type_always_saving(callbacks, type) ==
    IF type.kind = "FUNCTIONPROTO"
    THEN types_callbacks(callbacks, type.argument_types \o <<type.result>>)
    ELSE LET typedef_name == type.declaration.qualified_name
             decls == SelectSeq(type.declaration.children,
                                LAMBDA c : c.kind = "PARM_DECL")
             resolved == types_callbacks(
                             callbacks,
                             <<type.canonical.pointee.result>>
                                 \o [k \in 1..Len(decls) |-> decls[k].type])
         IN  Append(resolved,
                    ApiCallback(typedef_name,
                                _build_type_model(type.canonical.pointee.result),
                                _build_method_parameters_models(
                                    type.declaration,
                                    <<"parser", typedef_name, "callback", 0>>)))

_build_callback_type(callbacks, type) ==
    IF type.kind = "FUNCTIONPROTO"
    THEN types_callbacks(callbacks, type.argument_types \o <<type.result>>)
    ELSE LET typedef_name == type.declaration.qualified_name
             found_callback ==
                 \E i \in 1..Len(callbacks) : callbacks[i].qualified_name = typedef_name
             decls == SelectSeq(type.declaration.children,
                                LAMBDA c : c.kind = "PARM_DECL")
             resolved == types_callbacks(
                             callbacks,
                             <<type.canonical.pointee.result>>
                                 \o [k \in 1..Len(decls) |-> decls[k].type])
         IN  IF found_callback THEN resolved
             ELSE Append(resolved,
                         ApiCallback(typedef_name,
                                     _build_type_model(type.canonical.pointee.result),
                                     _build_method_parameters_models(
                                         type.declaration,
                                         <<"parser", typedef_name, "callback", 0>>)))

\* self._model.callbacks after _build_type_model has resolved each type of a
\* list in turn.
types_callbacks(callbacks, types) ==
    IF Len(types) = 0 THEN callbacks
    ELSE LET type == Head(types)
             after ==
                 IF type.kind = "TYPEDEF" THEN
                     IF type.spelling \in DOMAIN settings_typedef_to_primitive_map
                     THEN callbacks
                     ELSE IF /\ type.canonical.kind = "POINTER"
                             /\ type.canonical.pointee.kind = "FUNCTIONPROTO"
                     THEN _build_callback_type(callbacks, type)
                     ELSE types_callbacks(callbacks, <<type.canonical>>)
                 ELSE IF type.kind \in {"LVALUEREFERENCE", "RVALUEREFERENCE"}
                 THEN types_callbacks(callbacks, <<type.pointee>>)
                 ELSE IF type.kind = "POINTER" THEN
                     IF type.pointee.kind = "FUNCTIONPROTO"
                     THEN _build_callback_type(callbacks, type.pointee)
                     ELSE IF type.pointee.kind = "CHAR_S" /\ type.pointee.const
                     THEN callbacks
                     ELSE types_callbacks(callbacks, <<type.pointee>>)
                 ELSE IF type.kind = "CONSTANTARRAY"
                 THEN types_callbacks(callbacks, <<type.element_type>>)
                 ELSE callbacks
         IN  CHOOSE r \in {types_callbacks(c, Tail(types)) : c \in {after}} : TRUE

\* Mutant: no default constructor is synthesised.
_build_constructor_models_no_synthesis(class_cursor) ==
    LET public_constructors == _get_public_constructors(class_cursor)
    IN  IF public_constructors = None THEN <<>>
        ELSE [i \in 1..Len(public_constructors.items) |->
                ApiConstructor(_build_method_parameters_models(
                    public_constructors.items[i],
                    <<"parser", class_cursor.qualified_name, "constructor", i>>))]

\* ApiModelParser._build_constructor_models
_build_constructor_models(class_cursor) ==
    LET public_constructors == _get_public_constructors(class_cursor)
    IN  IF public_constructors = None THEN <<>>
        ELSE IF Len(public_constructors.items) = 0 THEN <<ApiConstructor(<<>>)>>
        ELSE [i \in 1..Len(public_constructors.items) |->
                ApiConstructor(_build_method_parameters_models(
                    public_constructors.items[i],
                    <<"parser", class_cursor.qualified_name, "constructor", i>>))]

\* get_method_comparison_obj: the method's to_dict(), the const of a returned
\* reference cleared, and whether it was set.
get_method_comparison_obj(method_model) ==
    LET has_const_return == /\ isinstance(method_model.return_type, "PassByRef")
                            /\ method_model.return_type.const
    IN  [method_obj |->
            [name |-> method_model.name,
             return_type |-> IF has_const_return
                             THEN [method_model.return_type EXCEPT !.const = FALSE]
                             ELSE method_model.return_type,
             parameters |-> [k \in 1..Len(method_model.parameters) |->
                               [name |-> method_model.parameters[k].name,
                                type |-> method_model.parameters[k].type]]],
         has_const_return |-> has_const_return]

\* _remove_duplicate_methods: methods[i] is dropped when a later method has an
\* equal comparison object and methods[i] does not return a const reference.
_remove_duplicate_methods(methods) ==
    LET keep(i) ==
            \/ get_method_comparison_obj(methods[i]).has_const_return
            \/ ~\E j \in (i + 1)..Len(methods) :
                   get_method_comparison_obj(methods[i]).method_obj
                       = get_method_comparison_obj(methods[j]).method_obj
        RECURSIVE filtered(_)
        filtered(i) == IF i > Len(methods) THEN <<>>
                       ELSE (IF keep(i) THEN <<methods[i]>> ELSE <<>>) \o filtered(i + 1)
    IN  filtered(1)

\* ApiModelParser._build_method_models, one of the two lists it returns.
RECURSIVE method_models_from(_, _, _)
method_models_from(class_cursor, i, static) ==
    IF i > Len(class_cursor.children) THEN <<>>
    ELSE LET cursor == class_cursor.children[i]
             oid == <<"parser", class_cursor.qualified_name, "method", i>>
         IN  (IF /\ cursor.kind = "CXX_METHOD"
                 /\ cursor.access_specifier = "PUBLIC"
                 /\ cursor.spelling # "operator="
                 /\ ATTR_HIDE_FROM_SPEC \notin cursor.annotations
                 /\ cursor.is_static_method = static
              THEN <<ApiMethod(oid, cursor.spelling,
                               _build_type_model(cursor.result_type),
                               _build_method_parameters_models(cursor, oid))>>
              ELSE <<>>) \o method_models_from(class_cursor, i + 1, static)

_build_method_models(class_cursor) ==
    [methods |->
         CHOOSE r \in {_remove_duplicate_methods(methods) :
                          methods \in {method_models_from(class_cursor, 1, FALSE)}} : TRUE,
     static_methods |->
         CHOOSE r \in {_remove_duplicate_methods(methods) :
                          methods \in {method_models_from(class_cursor, 1, TRUE)}} : TRUE]

\* The types that _build_type_model is called with, in the order of the
\* calls, by _build_method_parameters_models, _build_constructor_models,
\* _build_method_models and, for a record, by the three builders that
\* _visit_cursor runs on it.
RECURSIVE Flatten(_)
Flatten(seqs) == IF Len(seqs) = 0 THEN <<>> ELSE Head(seqs) \o Flatten(Tail(seqs))

parameter_types(method_cursor) ==
    LET decls == SelectSeq(method_cursor.children, LAMBDA c : c.kind = "PARM_DECL")
    IN  [k \in 1..Len(decls) |-> decls[k].type]

constructor_types(class_cursor) ==
    LET public_constructors == _get_public_constructors(class_cursor)
    IN  IF public_constructors = None THEN <<>>
        ELSE Flatten([i \in 1..Len(public_constructors.items) |->
                        parameter_types(public_constructors.items[i])])

method_types(class_cursor) ==
    LET cursors == SelectSeq(class_cursor.children,
                       LAMBDA cursor : /\ cursor.kind = "CXX_METHOD"
                                       /\ cursor.access_specifier = "PUBLIC"
                                       /\ cursor.spelling # "operator="
                                       /\ ATTR_HIDE_FROM_SPEC \notin cursor.annotations)
    IN  Flatten([i \in 1..Len(cursors) |->
                   parameter_types(cursors[i]) \o <<cursors[i].result_type>>])

field_types(cursor) ==
    LET decls == SelectSeq(cursor.children, LAMBDA c : c.kind = "FIELD_DECL")
    IN  [k \in 1..Len(decls) |-> decls[k].type]

record_types(cursor) ==
    (IF cursor.qualified_name \in settings_public_apis
     THEN constructor_types(cursor) \o method_types(cursor) ELSE <<>>)
    \o (IF cursor.qualified_name \in settings_interfaces
        THEN method_types(cursor) ELSE <<>>)
    \o (IF cursor.qualified_name \in settings_value_types
        THEN constructor_types(cursor) \o field_types(cursor) ELSE <<>>)

\* ApiModelParser._build_class_model: None for a class that is not a public API.
_build_class_model(cursor) ==
    IF cursor.qualified_name \notin settings_public_apis THEN None
    ELSE CHOOSE r \in {ApiClass(cursor.qualified_name, _is_destructible(cursor),
                                _build_constructor_models(cursor),
                                built.methods, built.static_methods) :
                          built \in {_build_method_models(cursor)}} : TRUE

_build_interface_model(cursor) ==
    IF cursor.qualified_name \notin settings_interfaces THEN None
    ELSE ApiInterface(cursor.qualified_name, _build_method_models(cursor).methods)

\* Mutant: a configured value type that is not destructible is skipped.
_build_value_type_model_skipping(cursor) ==
    LET constructors == _build_constructor_models(cursor)
        found_constructor ==
            \E i \in 1..Len(constructors) : Len(constructors[i].parameters) = 0
        decls == SelectSeq(cursor.children, LAMBDA c : c.kind = "FIELD_DECL")
        fields == [k \in 1..Len(decls) |->
                     ApiValueTypeField(decls[k].spelling,
                                       _build_type_model(decls[k].type))]
    IN  IF cursor.qualified_name \notin settings_value_types THEN Ok(None)
        ELSE IF ~_is_destructible(cursor) THEN Ok(None)
        ELSE IF ~found_constructor
        THEN Raise("RuntimeError: configured as a value type but has no default constructor")
        ELSE Ok(ApiValueType(cursor.qualified_name, fields, None))

\* ApiModelParser._build_value_type_model, for structs without unions.
_build_value_type_model(cursor) ==
    LET constructors == _build_constructor_models(cursor)
        found_constructor ==
            \E i \in 1..Len(constructors) : Len(constructors[i].parameters) = 0
        decls == SelectSeq(cursor.children, LAMBDA c : c.kind = "FIELD_DECL")
        fields == [k \in 1..Len(decls) |->
                     ApiValueTypeField(decls[k].spelling,
                                       _build_type_model(decls[k].type))]
    IN  IF cursor.qualified_name \notin settings_value_types THEN Ok(None)
        ELSE IF ~_is_destructible(cursor)
        THEN Raise("RuntimeError: configured as a value type but is not destructible")
        ELSE IF ~found_constructor
        THEN Raise("RuntimeError: configured as a value type but has no default constructor")
        ELSE Ok(ApiValueType(cursor.qualified_name, fields, None))

_build_enum_model(cursor) ==
    LET enum_type == _build_type_model(cursor.enum_type)
    IN  IF ~isinstance(enum_type, "Primitive")
        THEN Raise("RuntimeError: Expected base type of enum to be primitive")
        ELSE Ok(ApiEnum(cursor.qualified_name, enum_type.kind, <<>>))

\* ApiModelParser._visit_cursor on a cursor of a public header, and on each
\* cursor of a list in turn; m is self._model.
RECURSIVE _visit_cursor(_, _), _visit_cursors(_, _)
_visit_cursor(m, cursor) ==
    IF cursor.kind \in {"CLASS_DECL", "STRUCT_DECL"} THEN
        IF ~cursor.is_definition THEN Ok(m)
        ELSE LET with_class(class_model) ==
                     IF class_model = None
                     THEN [m EXCEPT !.callbacks = types_callbacks(@, record_types(cursor))]
                     ELSE [m EXCEPT !.callbacks = types_callbacks(@, record_types(cursor)),
                                    !.classes = Append(@, class_model)]
                 with_interface(m1, interface_model) ==
                     IF interface_model = None THEN m1
                     ELSE [m1 EXCEPT !.interfaces = Append(@, interface_model)]
                 with_value_type(m2, value_type_model) ==
                     IF ~value_type_model.ok THEN value_type_model
                     ELSE IF value_type_model.value = None
                     THEN _visit_cursors(m2, cursor.children)
                     ELSE _visit_cursors(
                              [m2 EXCEPT !.value_types = Append(@, value_type_model.value)],
                              cursor.children)
             IN  CHOOSE r \in
                   {with_value_type(m2, value_type_model) :
                      m2 \in {with_interface(m1, interface_model) :
                                m1 \in {with_class(class_model) :
                                          class_model \in {_build_class_model(cursor)}},
                                interface_model \in {_build_interface_model(cursor)}},
                      value_type_model \in {_build_value_type_model(cursor)}} : TRUE
    ELSE IF cursor.kind = "ENUM_DECL" THEN
        IF ~cursor.is_definition THEN Ok(m)
        ELSE CHOOSE r \in
                 {IF ~enum_model.ok THEN enum_model
                  ELSE _visit_cursors([m EXCEPT !.enums = Append(@, enum_model.value)],
                                      cursor.children) :
                  enum_model \in {_build_enum_model(cursor)}} : TRUE
    ELSE _visit_cursors(m, cursor.children)

_visit_cursors(m, cursors) ==
    IF Len(cursors) = 0 THEN Ok(m)
    ELSE CHOOSE r \in {IF ~visited.ok THEN visited
                        ELSE _visit_cursors(visited.value, Tail(cursors)) :
                        visited \in {_visit_cursor(m, Head(cursors))}} : TRUE

\* Mutant: the fields of value types are not looked at.
_get_enum_refs_no_fields(m) ==
    UNION {LET members == m.classes[c].methods \o m.classes[c].static_methods
                              \o m.classes[c].constructors
           IN  UNION {{members[i].parameters[k].type.qualified_name :
                          k \in {j \in 1..Len(members[i].parameters) :
                                   isinstance(members[i].parameters[j].type, "EnumRef")}}
                      \cup (IF /\ "return_type" \in DOMAIN members[i]
                               /\ isinstance(members[i].return_type, "EnumRef")
                            THEN {members[i].return_type.qualified_name} ELSE {}) :
                      i \in 1..Len(members)} :
           c \in 1..Len(m.classes)}

\* ApiModelParser._get_enum_refs
_get_enum_refs(m) ==
    UNION {LET members == m.classes[c].methods \o m.classes[c].static_methods
                              \o m.classes[c].constructors
           IN  UNION {{members[i].parameters[k].type.qualified_name :
                          k \in {j \in 1..Len(members[i].parameters) :
                                   isinstance(members[i].parameters[j].type, "EnumRef")}}
                      \cup (IF /\ "return_type" \in DOMAIN members[i]
                               /\ isinstance(members[i].return_type, "EnumRef")
                            THEN {members[i].return_type.qualified_name} ELSE {}) :
                      i \in 1..Len(members)} :
           c \in 1..Len(m.classes)}
    \cup
    UNION {{m.value_types[v].fields[f].type.qualified_name :
               f \in {j \in 1..Len(m.value_types[v].fields) :
                        isinstance(m.value_types[v].fields[j].type, "EnumRef")}} :
           v \in 1..Len(m.value_types)}

\* ApiModelParser.parse_api
parse_api(unit) ==
    CHOOSE r \in
        {IF ~visited.ok THEN visited
         ELSE CHOOSE kept \in
                  {Ok([visited.value EXCEPT
                         !.enums = SelectSeq(@, LAMBDA x : x.qualified_name \in enums)]) :
                   enums \in {_get_enum_refs(visited.value)}} : TRUE :
         visited \in {_visit_cursors(ApiModel, unit)}} : TRUE

-----------------------------------------------------------------------------
(* The parser at work: headers are declared, then parse_api runs.          *)

IdleGenerators ==
    /\ owners = [A |-> ApiClass(NsWidget, FALSE, <<>>, <<>>, <<>>),
                 B |-> ApiClass(NsOther, FALSE, <<>>, <<>>, <<>>)]
    /\ names = NoNames
    /\ method = NoMethod /\ out = NoOutput /\ emits = 0
    /\ IdleOutput

\* ApiModelParser.parse_api on the translation unit declared so far.
ParseApi ==
    /\ model = NotParsed
    /\ model' = parse_api(translation_unit)
    /\ UNCHANGED <<translation_unit, namesVars, returnVars, generatorVars>>

Declared(qualified_name) ==
    \E i \in 1..Len(translation_unit) :
        translation_unit[i].qualified_name = qualified_name

(* Enumerations and their uses. *)

EnumNames == {NsMode, NsColor, NsFlag}

IntType == ClangType("INT", FALSE)
VoidType == ClangType("VOID", FALSE)

\* Types of a parameter or a return value: an int, an enum, a const reference
\* to an enum, a pointer to an enum.
MemberTypes ==
    {IntType, ClangEnumType(NsMode, FALSE), ClangEnumType(NsColor, FALSE),
     ClangPointee("LVALUEREFERENCE", ClangEnumType(NsMode, TRUE), FALSE),
     ClangPointee("POINTER", ClangEnumType(NsColor, FALSE), FALSE)}

\* Types of a field: an int, an enum, an array of an enum.
FieldTypes ==
    {IntType, ClangEnumType(NsMode, FALSE), ClangEnumType(NsColor, FALSE),
     ClangArrayType(ClangEnumType(NsMode, FALSE), 2),
     ClangArrayType(ClangEnumType(NsColor, FALSE), 2)}

Placements == {"parameter", "return", "static_parameter", "constructor"}

ClassMember(placement, t) ==
    IF placement = "parameter"
    THEN MethodCursor("set", FALSE, "PUBLIC", VoidType, <<ParmDecl("v", t)>>)
    ELSE IF placement = "return"
    THEN MethodCursor("get", FALSE, "PUBLIC", t, <<>>)
    ELSE IF placement = "static_parameter"
    THEN MethodCursor("make", TRUE, "PUBLIC", VoidType, <<ParmDecl("v", t)>>)
    ELSE ConstructorCursor("other", "PUBLIC", <<ParmDecl("v", t)>>)

InitEnums ==
    /\ IdleGenerators
    /\ translation_unit = <<>>
    /\ model = NotParsed

\* The headers declare an enum; enums come before the records that use them.
DeclareEnum(qualified_name) ==
    /\ model = NotParsed
    /\ ~Declared(qualified_name)
    /\ \A i \in 1..Len(translation_unit) : translation_unit[i].kind = "ENUM_DECL"
    /\ translation_unit' =
           Append(translation_unit, EnumCursor(qualified_name, IntType))
    /\ UNCHANGED <<model, namesVars, returnVars, generatorVars>>

\* The headers declare the public class, with no member or one.
DeclareClass(children) ==
    /\ model = NotParsed
    /\ ~Declared(NsWidget) /\ ~Declared(NsBox) /\ ~Declared(NsListener)
    /\ translation_unit' = Append(translation_unit, ClassCursor(NsWidget, children))
    /\ UNCHANGED <<model, namesVars, returnVars, generatorVars>>

\* The headers declare the value type, a struct with one field.
DeclareValueType(t) ==
    /\ model = NotParsed
    /\ ~Declared(NsBox) /\ ~Declared(NsListener)
    /\ translation_unit' =
           Append(translation_unit, StructCursor(NsBox, <<FieldDecl("f", t)>>))
    /\ UNCHANGED <<model, namesVars, returnVars, generatorVars>>

\* The headers declare the interface, with one method.
DeclareInterface(t) ==
    /\ model = NotParsed
    /\ ~Declared(NsListener)
    /\ translation_unit' =
           Append(translation_unit,
                  ClassCursor(NsListener,
                      <<MethodCursor("on", FALSE, "PUBLIC", VoidType,
                                     <<ParmDecl("v", t)>>)>>))
    /\ UNCHANGED <<model, namesVars, returnVars, generatorVars>>

NextEnums ==
    \/ \E qualified_name \in EnumNames : DeclareEnum(qualified_name)
    \/ \E children \in {<<>>} \cup {<<ClassMember(placement, t)>> :
                                      placement \in Placements, t \in MemberTypes} :
          DeclareClass(children)
    \/ \E t \in FieldTypes : DeclareValueType(t)
    \/ \E t \in {IntType, ClangEnumType(NsMode, FALSE)} : DeclareInterface(t)
    \/ ParseApi

SpecEnums == InitEnums /\ [][NextEnums]_vars

(* Constructors and base classes of one public class. *)

MaxBases == 2
MaxConstructors == 2

FilamentAPICursor == ClassCursor(NsFilamentAPI, <<DestructorCursor("PROTECTED")>>)
OtherCursor == ClassCursor(NsOther, <<>>)
MidCursor == ClassCursor(NsMid, <<BaseSpecifier(FilamentAPICursor)>>)
BaseCursors == {FilamentAPICursor, OtherCursor, MidCursor}

AccessSpecifier == {"PUBLIC", "PROTECTED", "PRIVATE"}

ChildrenOfKind(cursor, kind) == SelectSeq(cursor.children, LAMBDA c : c.kind = kind)

InitCtors ==
    /\ IdleGenerators
    /\ translation_unit = <<ClassCursor(NsWidget, <<>>)>>
    /\ model = NotParsed

\* The class names one more base; base specifiers come first in a class.
DeclareBase(definition) ==
    /\ model = NotParsed
    /\ Len(translation_unit[1].children) < MaxBases
    /\ \A i \in 1..Len(translation_unit[1].children) :
          /\ translation_unit[1].children[i].kind = "CXX_BASE_SPECIFIER"
          /\ translation_unit[1].children[i] # BaseSpecifier(definition)
    /\ translation_unit' =
           [translation_unit EXCEPT ![1].children = Append(@, BaseSpecifier(definition))]
    /\ UNCHANGED <<model, namesVars, returnVars, generatorVars>>

\* The class declares one more constructor: at most one default, one copy and
\* one move constructor, and constructors of one, two, ... int parameters.
DeclareConstructor(ctor, access_specifier) ==
    /\ model = NotParsed
    /\ LET declared == ChildrenOfKind(translation_unit[1], "CONSTRUCTOR")
           others == SelectSeq(declared, LAMBDA c : c.ctor = "other")
           children == IF ctor = "other"
                       THEN [k \in 1..(Len(others) + 1) |-> ParmDecl("p" \o str(k), IntType)]
                       ELSE IF ctor = "default" THEN <<>>
                       ELSE <<ParmDecl("that",
                                 ClangPointee(IF ctor = "copy" THEN "LVALUEREFERENCE"
                                              ELSE "RVALUEREFERENCE",
                                              ClangRecordType(NsWidget, ctor = "copy"),
                                              FALSE))>>
       IN  /\ Len(declared) < MaxConstructors
           /\ ctor # "other" => \A i \in 1..Len(declared) : declared[i].ctor # ctor
           /\ translation_unit' =
                  [translation_unit EXCEPT ![1].children =
                      Append(@, ConstructorCursor(ctor, access_specifier, children))]
    /\ UNCHANGED <<model, namesVars, returnVars, generatorVars>>

NextCtors ==
    \/ \E definition \in BaseCursors : DeclareBase(definition)
    \/ \E ctor \in {"default", "copy", "move", "other"},
          access_specifier \in AccessSpecifier :
          DeclareConstructor(ctor, access_specifier)
    \/ ParseApi

SpecCtors == InitCtors /\ [][NextCtors]_vars

(* Bases, destructor and constructors of one record: the public class or   *)
(* the struct configured as a value type.                                  *)

OwnedCursor ==
    ClassCursor(NsOwned, <<BaseSpecifier(FilamentAPICursor), DestructorCursor("PUBLIC")>>)
RecordBases == BaseCursors \cup {OwnedCursor}

InitRecords ==
    /\ IdleGenerators
    /\ translation_unit \in {<<ClassCursor(NsWidget, <<>>)>>, <<StructCursor(NsBox, <<>>)>>}
    /\ model = NotParsed

\* The record declares its destructor, after its bases and before its
\* constructors.
DeclareDestructor(access_specifier) ==
    /\ model = NotParsed
    /\ \A i \in 1..Len(translation_unit[1].children) :
          translation_unit[1].children[i].kind = "CXX_BASE_SPECIFIER"
    /\ translation_unit' =
           [translation_unit EXCEPT ![1].children =
               Append(@, DestructorCursor(access_specifier))]
    /\ UNCHANGED <<model, namesVars, returnVars, generatorVars>>

NextRecords ==
    \/ \E definition \in RecordBases : DeclareBase(definition)
    \/ \E access_specifier \in AccessSpecifier : DeclareDestructor(access_specifier)
    \/ \E ctor \in {"default", "other"}, access_specifier \in {"PUBLIC", "PRIVATE"} :
          DeclareConstructor(ctor, access_specifier)
    \/ ParseApi

SpecRecords == InitRecords /\ [][NextRecords]_vars

(* The methods of one public class, overloads on constness among them.     *)

MaxMethods == 3

OtherRef(const) == ClangPointee("LVALUEREFERENCE", ClangRecordType(NsOther, const), FALSE)
OtherPointer(const) == ClangPointee("POINTER", ClangRecordType(NsOther, const), FALSE)

\* Result types of a method get(): Other&, const Other&, Other*, const Other*
\* and int.
ResultTypes == {OtherRef(FALSE), OtherRef(TRUE), OtherPointer(FALSE), OtherPointer(TRUE), IntType}

InitMethods ==
    /\ IdleGenerators
    /\ translation_unit = <<ClassCursor(NsWidget, <<>>)>>
    /\ model = NotParsed

\* The class declares one more public method get(), const or not.
DeclareMethod(result_type) ==
    /\ model = NotParsed
    /\ Len(translation_unit[1].children) < MaxMethods
    /\ translation_unit' =
           [translation_unit EXCEPT ![1].children =
               Append(@, MethodCursor("get", FALSE, "PUBLIC", result_type, <<>>))]
    /\ UNCHANGED <<model, namesVars, returnVars, generatorVars>>

NextMethods ==
    \/ \E result_type \in ResultTypes : DeclareMethod(result_type)
    \/ ParseApi

SpecMethods == InitMethods /\ [][NextMethods]_vars

(* Methods of one public class that take callbacks.                        *)

\* typedef void (*Done)(int status);
DoneType ==
    ClangTypedefType(NsDone,
        ClangPointee("POINTER", ClangFunctionProto(VoidType, <<IntType>>, "void (int)"), FALSE),
        <<ParmDecl("status", IntType)>>)
\* typedef int (*Fn)(Done done);
FnType ==
    ClangTypedefType(NsFn,
        ClangPointee("POINTER", ClangFunctionProto(IntType, <<DoneType>>, "int (Done)"), FALSE),
        <<ParmDecl("done", DoneType)>>)
\* typedef math::float3 LinearColor;
LinearColorType == ClangTypedefType(NsLinearColor, ClangType("UNEXPOSED", FALSE), <<>>)

\* Types of the parameter of a method: Done, Fn, Done*, void (*)(Done), int
\* and LinearColor.
CallbackTypes ==
    {DoneType, FnType, ClangPointee("POINTER", DoneType, FALSE),
     ClangPointee("POINTER", ClangFunctionProto(VoidType, <<DoneType>>, "void (Done)"), FALSE),
     IntType, LinearColorType}

\* The class declares one more public method, on1(t cb), on2(t cb), ...
DeclareListener(t) ==
    /\ model = NotParsed
    /\ Len(translation_unit[1].children) < MaxMethods
    /\ translation_unit' =
           [translation_unit EXCEPT ![1].children =
               Append(@, MethodCursor("on" \o str(Len(@) + 1), FALSE, "PUBLIC", VoidType,
                                      <<ParmDecl("cb", t)>>))]
    /\ UNCHANGED <<model, namesVars, returnVars, generatorVars>>

NextCallbacks ==
    \/ \E t \in CallbackTypes : DeclareListener(t)
    \/ ParseApi

SpecCallbacks == InitMethods /\ [][NextCallbacks]_vars

-----------------------------------------------------------------------------
(* generators/c.py, the whole run: CGenerator.generate.  A piece of        *)
(* emitted text is kept with a description of the C++ it spells: the       *)
(* functions it declares or defines, or the field it assigns.              *)

\* A function of the emitted C++: its name, return type, parameter type and
\* the statements of its body (none for a declaration).
Function(name, returns, takes, statements) ==
    [name |-> name, returns |-> returns, takes |-> takes, statements |-> statements]

Emit(written, kind, functions, field, index) ==
    [text |-> written, kind |-> kind, functions |-> functions, field |-> field,
     index |-> index]
PlainText(written) == Emit(written, "text", <<>>, "", -1)

\* What has been written when a part of a file ends: the pieces, and the
\* exception that ended it, if any; and the parameter lists of the model
\* that the part has appended to, each with the list as it was left.
NoError == ""
Wrote(lines) == [lines |-> lines, error |-> NoError, touched |-> <<>>]
Failed(lines, error) == [lines |-> lines, error |-> error, touched |-> <<>>]
Touched(path, parameters) == [path |-> path, parameters |-> parameters]
Touching(part, touched) == [part EXCEPT !.touched = touched \o @]

\* The parts of a file in turn, up to the first that fails.
RECURSIVE Chain(_)
Chain(parts) ==
    IF Len(parts) = 0 THEN Wrote(<<>>)
    ELSE IF Head(parts).error # NoError THEN Head(parts)
    ELSE CHOOSE r \in {[lines |-> Head(parts).lines \o rest.lines,
                          error |-> rest.error,
                          touched |-> Head(parts).touched \o rest.touched] :
                         rest \in {Chain(Tail(parts))}} : TRUE

\* One piece of text that is computed, then written.
WriteText(computed) ==
    IF computed.ok THEN Wrote(<<PlainText(computed.value)>>)
    ELSE Failed(<<>>, computed.error)

\* The header attribute of a class and the rel_header_path attribute of a
\* value type: the path, relative to the include directory, of the file that
\* declares it, which the parser passes as first argument.
rel_header_path(qualified_name) == "filament/" \o mangle_name(qualified_name) \o ".h"

\* The elements of a list, each once, in the order of their first occurrence.
RECURSIVE Unique(_)
Unique(seq) ==
    IF Len(seq) = 0 THEN <<>>
    ELSE LET front == Unique(SubSeq(seq, 1, Len(seq) - 1))
         IN  IF \E i \in 1..Len(front) : front[i] = seq[Len(seq)] THEN front
             ELSE Append(front, seq[Len(seq)])

\* The order in which a run iterates over a Python set of strings or enum
\* members.  The order follows the hashes of the elements, which differ from
\* one run of the interpreter to the next; hash_seed stands for the run's
\* hash seed, and the orders drawn are the rotations of the elements listed.
MaxHashSeed == 1
HashSeeds == 0..MaxHashSeed
iteration_order(elements, hash_seed) ==
    [i \in 1..Len(elements) |-> elements[((i - 1 + hash_seed) % Len(elements)) + 1]]

\* _force_cast_primitive_kinds, its members listed.
force_cast_primitive_kinds_listed ==
    <<"FRUSTUM", "ENTITY", "MAT33_DOUBLE", "MAT33_FLOAT", "MAT44_DOUBLE",
      "MAT44_FLOAT", "VEC2_DOUBLE", "VEC2_FLOAT", "VEC3_DOUBLE", "VEC3_FLOAT",
      "VEC4_DOUBLE", "VEC4_FLOAT", "QUATERNION_FLOAT">>

\* CGenerator._generate_conversion_methods, the loop over
\* _force_cast_primitive_kinds: two declarations and one piece of
\* implementation text for a kind.
force_cast_decls(type) ==
    LET filament_name == c_primitive_type_names_filament[type]
        wrapper_name == c_primitive_type_names[type]
    IN  <<Emit(wrapper_name \o " convertOut(" \o filament_name \o ");\n", "declaration",
               <<Function("convertOut", wrapper_name, filament_name, {})>>, "", -1),
          Emit(filament_name \o " convertIn(" \o wrapper_name \o ");\n", "declaration",
               <<Function("convertIn", filament_name, wrapper_name, {})>>, "", -1)>>

force_cast_impls(type) ==
    LET filament_name == c_primitive_type_names_filament[type]
        wrapper_name == c_primitive_type_names[type]
    IN  <<Emit("\ninline " \o wrapper_name \o " convertOut(" \o filament_name
                 \o " input) {\n    " \o wrapper_name \o " r;\n"
                 \o "    static_assert(sizeof(r) == sizeof(input), \"" \o wrapper_name
                 \o " size doesnt match " \o filament_name \o "'s\");\n"
                 \o "    memcpy(&r, &input, sizeof(input));\n    return r;\n}\n\n"
                 \o "// Directly cast const pointers\n"
                 \o "inline const " \o wrapper_name \o "* convertOut(const "
                 \o filament_name \o "* input) {\n    return reinterpret_cast<const "
                 \o wrapper_name \o "*>(input);\n}\n\n"
                 \o "// Directly cast non-const pointers when write-only arguments are passed\n"
                 \o "inline " \o filament_name \o "* convertIn(" \o wrapper_name
                 \o "* input) {\n    return reinterpret_cast<" \o filament_name
                 \o "*>(input);\n}\n",
               "definition",
               <<Function("convertOut", wrapper_name, filament_name,
                          {"static_assert", "memcpy", "return"}),
                 Function("convertOut", "const " \o wrapper_name \o "*",
                          "const " \o filament_name \o "*", {"reinterpret_cast"}),
                 Function("convertIn", filament_name \o "*", wrapper_name \o "*",
                          {"reinterpret_cast"})>>,
               "", -1)>>

\* CGenerator._generate_conversion_methods, the loop over
\* self.model.value_types: the declaration and the implementation of
\* convertOut for a value type.
value_type_decls(value_type) ==
    LET filament_name == text(value_type.qualified_name)
        wrapper_name == mangle_name(value_type.qualified_name)
    IN  <<Emit(wrapper_name \o " convertOut(" \o filament_name \o ");\n", "declaration",
               <<Function("convertOut", wrapper_name, filament_name, {})>>, "", -1)>>

field_assignments(field) ==
    IF isinstance(field.type, "ConstantArray")
    THEN [k \in 1..field.type.element_count |->
            Emit("    result." \o field.name \o "[" \o str(k - 1) \o "] = "
                   \o c_convert_out("input." \o field.name \o "[" \o str(k - 1) \o "]",
                                    field.type.element_type).value \o ";\n",
                 "assignment", <<>>, field.name, k - 1)]
    ELSE <<Emit("    result." \o field.name \o " = "
                  \o c_convert_out("input." \o field.name, field.type).value \o ";\n",
                "assignment", <<>>, field.name, -1)>>

value_type_impls(value_type) ==
    LET filament_name == text(value_type.qualified_name)
        wrapper_name == mangle_name(value_type.qualified_name)
    IN  <<Emit("inline " \o wrapper_name \o " convertOut(" \o filament_name
                 \o " input) {\n", "definition",
               <<Function("convertOut", wrapper_name, filament_name, {"assignment"})>>,
               "", -1),
          PlainText("    " \o wrapper_name \o " result;\n")>>
        \o Flatten([f \in 1..Len(value_type.fields) |->
                      field_assignments(value_type.fields[f])])
        \o <<PlainText("    return result;\n"), PlainText("}\n\n")>>

\* CGenerator._generate_conversion_methods: the includes are a set of
\* strings and the force-cast kinds a set of enum members, each added in the
\* order of its iteration.
_generate_conversion_methods(m, hash_seed) ==
    LET includes == Unique([v \in 1..Len(m.value_types) |->
                              "#include <" \o rel_header_path(m.value_types[v].qualified_name)
                                  \o ">\n"])
        included == iteration_order(includes, hash_seed)
        kinds == iteration_order(force_cast_primitive_kinds_listed, hash_seed)
    IN  [decls |-> <<PlainText("#include \"cfilament.h\"\n")>>
                   \o [i \in 1..Len(included) |-> PlainText(included[i])]
                   \o Flatten([k \in 1..Len(kinds) |-> force_cast_decls(kinds[k])])
                   \o Flatten([v \in 1..Len(m.value_types) |->
                                 value_type_decls(m.value_types[v])]),
         impls |-> Flatten([k \in 1..Len(kinds) |-> force_cast_impls(kinds[k])])
                   \o Flatten([v \in 1..Len(m.value_types) |->
                                 value_type_impls(m.value_types[v])])]

\* CGenerator._generate_methods: for each class the comment, the methods, the
\* static methods and an empty line, as a list of steps; the declarations
\* and implementations of one step; and those of all steps, or the exception
\* of the first step that raises.
methods_steps(m) ==
    Flatten([c \in 1..Len(m.classes) |->
        <<[op |-> "class", api_class |-> m.classes[c], method_model |-> NoMethod,
           path |-> <<>>]>>
        \o [i \in 1..Len(m.classes[c].methods) |->
              [op |-> "method", api_class |-> m.classes[c],
               method_model |-> m.classes[c].methods[i], path |-> <<>>]]
        \o [i \in 1..Len(m.classes[c].static_methods) |->
              [op |-> "static_method", api_class |-> m.classes[c],
               method_model |-> m.classes[c].static_methods[i],
               path |-> <<"static_methods", c, i>>]]
        \o <<[op |-> "end", api_class |-> m.classes[c], method_model |-> NoMethod,
              path |-> <<>>]>>])

\* The header of a static method is built from method.parameters itself,
\* which is left with what _create_method_header appended.
methods_step(step, call) ==
    IF step.op = "class"
    THEN [result |-> Ok([decls |-> <<PlainText("//\n"),
                                     PlainText("// " \o text(step.api_class.qualified_name)
                                                 \o "\n"),
                                     PlainText("//\n"), PlainText("\n")>>,
                         impls |-> <<>>]),
          touched |-> <<>>]
    ELSE IF step.op = "end"
    THEN [result |-> Ok([decls |-> <<PlainText("\n")>>, impls |-> <<>>]),
          touched |-> <<>>]
    ELSE IF step.op = "method" THEN
        CHOOSE r \in
            {[result |->
                IF ~emitted.result.ok THEN emitted.result
                ELSE Ok([decls |-> <<PlainText(emitted.result.value.signature \o ";\n")>>,
                         impls |-> <<PlainText(emitted.result.value.signature \o "\n"),
                                     PlainText("{\n"),
                                     PlainText("    auto _self = ("
                                                 \o text(step.api_class.qualified_name)
                                                 \o "*)self;\n    "),
                                     PlainText(emitted.result.value.call_expression),
                                     PlainText(";\n"), PlainText("}\n\n")>>]),
              touched |-> <<>>] :
             emitted \in {_generate_methods_method(step.api_class, step.method_model,
                                                   call)}} : TRUE
    ELSE CHOOSE r \in
            {[result |->
                IF ~emitted.result.ok THEN emitted.result
                ELSE Ok([decls |-> <<PlainText(emitted.result.value.signature \o ";\n")>>,
                         impls |-> <<>>]),
              touched |-> <<Touched(step.path, emitted.parameters)>>] :
             emitted \in {_generate_methods_static_method(step.api_class,
                                                          step.method_model, call)}} : TRUE

RECURSIVE methods_steps_from(_, _)
methods_steps_from(steps, call) ==
    IF call > Len(steps)
    THEN [result |-> Ok([decls |-> <<>>, impls |-> <<>>]), touched |-> <<>>]
    ELSE CHOOSE r \in
            {IF ~first.result.ok THEN first
             ELSE CHOOSE r2 \in
                      {[result |->
                          IF ~rest.result.ok THEN rest.result
                          ELSE Ok([decls |-> first.result.value.decls
                                               \o rest.result.value.decls,
                                   impls |-> first.result.value.impls
                                               \o rest.result.value.impls]),
                        touched |-> first.touched \o rest.touched] :
                       rest \in {methods_steps_from(steps, call + 1)}} : TRUE :
             first \in {methods_step(steps[call], call)}} : TRUE

_generate_methods(m) ==
    CHOOSE r \in
        {[result |->
            IF ~emitted.result.ok THEN emitted.result
            ELSE Ok([decls |-> emitted.result.value.decls,
                     impls |-> [c \in 1..Len(m.classes) |->
                                  PlainText("#include <"
                                      \o rel_header_path(m.classes[c].qualified_name)
                                      \o ">\n")]
                               \o <<PlainText("\n")>> \o emitted.result.value.impls]),
          touched |-> emitted.touched] :
         emitted \in {methods_steps_from(methods_steps(m), 1)}} : TRUE

_get_entity_instance_type_name(owner) == mangle_name(owner) \o "_Instance"

\* CGenerator._collect_all_entity_instances: the members of the set it
\* returns, listed.
_collect_all_entity_instances(m) ==
    Unique(Flatten([c \in 1..Len(m.classes) |->
        LET methods == m.classes[c].methods \o m.classes[c].static_methods
        IN  Flatten([i \in 1..Len(methods) |->
                (IF isinstance(methods[i].return_type, "EntityInstance")
                 THEN <<methods[i].return_type.owner_qualified_name>> ELSE <<>>)
                \o Flatten([k \in 1..Len(methods[i].parameters) |->
                      IF isinstance(methods[i].parameters[k].type, "EntityInstance")
                      THEN <<methods[i].parameters[k].type.owner_qualified_name>>
                      ELSE <<>>])])]))

\* CGenerator._generate_header, its parts: what each has written to
\* cfilament.h when it ends.
header_value_type(value_type) ==
    LET name == mangle_name(value_type.qualified_name)
        field_line(field) ==
            IF isinstance(field.type, "ConstantArray")
            THEN WriteText(RCat(<<c_get_type_repr(field.type.element_type, TRUE),
                                  Ok(" " \o field.name \o "["
                                       \o str(field.type.element_count) \o "];\n")>>))
            ELSE WriteText(RCat(<<c_get_type_repr(field.type, TRUE),
                                  Ok(" " \o field.name \o ";\n")>>))
    IN  Chain(<<Wrote(<<PlainText("typedef struct _" \o name \o " {\n")>>)>>
              \o [f \in 1..Len(value_type.fields) |-> field_line(value_type.fields[f])]
              \o <<Wrote(<<PlainText("} " \o name \o ";\n\n")>>)>>)

header_enum(api_enum) ==
    LET name == mangle_name(api_enum.qualified_name)
        base_type == dict_get(c_primitive_type_names, api_enum.base_type)
    IN  IF ~base_type.ok THEN Failed(<<>>, base_type.error)
        ELSE Wrote(<<PlainText("typedef enum _" \o name \o " : " \o base_type.value
                                 \o " {\n")>>
                   \o [i \in 1..Len(api_enum.constants) |->
                         PlainText("   " \o name \o "_" \o api_enum.constants[i].name
                                     \o " = " \o str(api_enum.constants[i].value)
                                     \o ",\n")]
                   \o <<PlainText("} " \o name \o ";\n\n")>>)

\* The typedef of a callback is built from callback.parameters itself.
header_callback(callback, call) ==
    LET decl == _get_function_pointer_decl(mangle_name(callback.qualified_name),
                                           callback.return_type, callback.parameters,
                                           call)
    IN  Touching(Chain(<<Wrote(<<PlainText("typedef ")>>),
                         IF decl.result.ok
                         THEN Wrote(<<Emit(decl.result.value.signature, "function_pointer",
                                           <<Function(decl.result.value.name,
                                                      decl.result.value.return_spelling,
                                                      decl.result.value.parameters, {})>>,
                                           "", -1),
                                      PlainText(";\n")>>)
                         ELSE Failed(<<>>, decl.result.error)>>),
                 <<Touched(<<"callbacks", call>>, decl.parameters)>>)

\* The struct of an interface.  The copy of the method's parameters that
\* gets the user argument is not used: the typedef is built from
\* method.parameters itself.  The "free" method is appended to a copy of
\* interface.methods.
header_interface(interface, call) ==
    LET name == mangle_name(interface.qualified_name)
        interface_methods ==
            Append(interface.methods,
                   ApiMethod(<<"header", interface.qualified_name, "free", call>>,
                             "free", None, <<>>))
        typedef(j) ==
            LET method_model == interface_methods[j]
                method_name == get_exported_method_name(interface, method_model)
                decl == _get_function_pointer_decl(method_name.value,
                                                   method_model.return_type,
                                                   method_model.parameters, call)
            IN  IF ~method_name.ok THEN Failed(<<>>, method_name.error)
                ELSE Touching(
                       Chain(<<Wrote(<<PlainText("typedef ")>>),
                               IF decl.result.ok
                               THEN Wrote(<<Emit(decl.result.value.signature,
                                                 "function_pointer",
                                                 <<Function(decl.result.value.name,
                                                            decl.result.value.return_spelling,
                                                            decl.result.value.parameters,
                                                            {})>>,
                                                 "", -1),
                                            PlainText(";\n")>>)
                               ELSE Failed(<<>>, decl.result.error)>>),
                       IF j <= Len(interface.methods)
                       THEN <<Touched(<<"interfaces", call, j>>, decl.parameters)>>
                       ELSE <<>>)
        typedefs == Chain([j \in 1..Len(interface_methods) |-> typedef(j)])
    IN  Chain(<<typedefs,
                Wrote(<<PlainText("\n"),
                        Emit("typedef struct " \o name \o " {\n", "struct", <<>>, name, -1)>>
                      \o [i \in 1..Len(interface_methods) |->
                            LET method_name == get_exported_method_name(
                                                   interface, interface_methods[i])
                            IN  Emit("    "
                                       \o (IF method_name.ok THEN method_name.value ELSE "")
                                       \o " " \o interface_methods[i].name \o ";\n",
                                     "struct_field", <<>>, interface_methods[i].name, -1)]
                      \o <<Emit("    void* user;\n", "struct_field", <<>>, "user", -1),
                           PlainText("} " \o name \o ";\n\n")>>)>>)

\* CGenerator._generate_header: the entity instances are a set of strings,
\* declared in the order of its iteration.
_generate_header(m, method_decls, hash_seed) ==
    LET owners_found == iteration_order(_collect_all_entity_instances(m), hash_seed)
    IN  Chain(<<Wrote(<<PlainText("#ifndef __CFILAMENT_H__\n"),
                        PlainText("#define __CFILAMENT_H__\n\n"),
                        PlainText("#include <stdint.h>\n"),
                        PlainText("\n"), PlainText("<the text of c_valuetypes.h>"),
                        PlainText("\n")>>
                      \o [c \in 1..Len(m.classes) |->
                            PlainText("typedef struct _"
                                \o mangle_name(m.classes[c].qualified_name) \o "* "
                                \o mangle_name(m.classes[c].qualified_name) \o ";\n")]
                      \o <<PlainText("\n")>>
                      \o [i \in 1..Len(owners_found) |->
                            Emit("typedef uint32_t "
                                   \o _get_entity_instance_type_name(owners_found[i])
                                   \o ";\n", "entity_instance", <<>>, "", -1)]
                      \o <<PlainText("\n")>>)>>
              \o [e \in 1..Len(m.enums) |-> header_enum(m.enums[e])]
              \o <<Wrote(<<PlainText("\n")>>)>>
              \o [v \in 1..Len(m.value_types) |-> header_value_type(m.value_types[v])]
              \o [k \in 1..Len(m.callbacks) |-> header_callback(m.callbacks[k], k)]
              \o [i \in 1..Len(m.interfaces) |-> header_interface(m.interfaces[i], i)]
              \o <<Wrote(method_decls \o <<PlainText("#endif\n")>>)>>)

\* CGenerator.generate: conversions.h is written, then the methods are
\* generated, then cfilament.h is written piece by piece, then
\* cfilament.cpp.  A file is created when it is opened and keeps what was
\* written to it when an exception ends the run.
File(content) == [exists |-> TRUE, content |-> content]

\* The model with the parameter lists that a run has appended to.
RECURSIVE with_touched(_, _)
with_touched(m, touched) ==
    IF Len(touched) = 0 THEN m
    ELSE LET path == Head(touched).path
             parameters == Head(touched).parameters
         IN  with_touched(
                 IF path[1] = "static_methods"
                 THEN [m EXCEPT !.classes[path[2]].static_methods[path[3]].parameters
                                    = parameters]
                 ELSE IF path[1] = "callbacks"
                 THEN [m EXCEPT !.callbacks[path[2]].parameters = parameters]
                 ELSE [m EXCEPT !.interfaces[path[2]].methods[path[3]].parameters
                                    = parameters],
                 Tail(touched))

generate(m, dir, hash_seed) ==
    LET conversions == _generate_conversion_methods(m, hash_seed)
        dir1 == [dir EXCEPT !.conversions_h = File(conversions.decls \o conversions.impls)]
    IN  CHOOSE r \in
          {IF ~methods.result.ok
           THEN [output_dir |-> dir1, generated |-> methods.result,
                 model |-> with_touched(m, methods.touched)]
           ELSE CHOOSE r2 \in
                  {IF header.error # NoError
                   THEN [output_dir |-> [dir1 EXCEPT !.cfilament_h = File(header.lines)],
                         generated |-> Raise(header.error),
                         model |-> with_touched(m, methods.touched \o header.touched)]
                   ELSE [output_dir |->
                             [dir1 EXCEPT
                                !.cfilament_h = File(header.lines),
                                !.cfilament_cpp =
                                    File(<<PlainText("extern \"C\" {\n"),
                                           PlainText("#include \"cfilament.h\"\n"),
                                           PlainText("};\n\n"),
                                           PlainText("#include \"conversions.h\"\n")>>
                                         \o methods.result.value.impls)],
                         generated |-> Ok("done"),
                         model |-> with_touched(m, methods.touched \o header.touched)] :
                   header \in {_generate_header(m, methods.result.value.decls,
                                                 hash_seed)}} : TRUE :
           methods \in {_generate_methods(m)}} : TRUE

-----------------------------------------------------------------------------
(* The generator at work: CGenerator(model).generate(output_dir), run on   *)
(* one model object again and again, each run under its own hash seed.     *)

MaxGenMethods == 2

\* What the methods of the class return.  The parser models a bitset only of
\* one 32-bit word; a model handed to the generator may hold any.
GeneratedReturnTypes ==
    {None, ApiEntityInstance(NsWidget), ApiEntityInstance(NsOther),
     ApiBitsetType("UINT32", 1), ApiBitsetType("UINT32", 2),
     ApiPrimitiveType("VEC3_FLOAT")}

\* class Widget with methods m1(), m2(), ..., or with the one static method
\* static float3 s1().
GeneratedClasses ==
    {<<ApiClass(NsWidget, TRUE, <<>>, <<>>,
                <<ApiMethod(<<"static_method", 1>>, "s1", ApiPrimitiveType("VEC3_FLOAT"),
                            <<>>)>>)>>} \cup
    {<<ApiClass(NsWidget, TRUE, <<>>,
                [i \in 1..Len(returns) |->
                   ApiMethod(<<"method", i>>, "m" \o str(i), returns[i], <<>>)],
                <<>>)>> :
       returns \in UNION {[1..k -> GeneratedReturnTypes] : k \in 0..MaxGenMethods}}

\* struct Box { float m[3]; };  struct Color { Mode mode; float3 v; };
\* struct Flag { utils::bitset<uint32_t, 2> bits; };
BoxValueType ==
    ApiValueType(NsBox, <<ApiValueTypeField("m", ApiConstantArray(ApiPrimitiveType("FLOAT"), 3))>>, None)
ColorValueType ==
    ApiValueType(NsColor, <<ApiValueTypeField("mode", ApiEnumRef(NsMode)),
                            ApiValueTypeField("v", ApiPrimitiveType("VEC3_FLOAT"))>>, None)
FlagValueType ==
    ApiValueType(NsFlag, <<ApiValueTypeField("bits", ApiBitsetType("UINT32", 2))>>, None)
GeneratedValueTypes ==
    {<<>>, <<BoxValueType>>, <<BoxValueType, ColorValueType>>, <<FlagValueType>>}

\* No interface; class Listener { virtual void on(); };
\* class Listener { virtual float3 on(int p1); };  and
\* class Listener { virtual void free(); };
GeneratedInterfaces ==
    {<<>>,
     <<ApiInterface(NsListener, <<ApiMethod(<<"interface", 1>>, "on", None, <<>>)>>)>>,
     <<ApiInterface(NsListener,
                    <<ApiMethod(<<"interface", 1>>, "on", ApiPrimitiveType("VEC3_FLOAT"),
                                FreshParameters(<<"interface", 1>>, 1))>>)>>,
     <<ApiInterface(NsListener, <<ApiMethod(<<"interface", 1>>, "free", None, <<>>)>>)>>}

\* typedef void (*Fn)();  and  typedef float3 (*Fn)();
GeneratedCallbacks(interfaces) ==
    IF interfaces = <<>> THEN <<>>
    ELSE <<ApiCallback(NsFn, interfaces[1].methods[1].return_type, <<>>)>>

InitGenerate ==
    /\ IdleGenerators
    /\ translation_unit = <<>>
    /\ \E classes \in GeneratedClasses, value_types \in GeneratedValueTypes,
          interfaces \in GeneratedInterfaces :
         model = Ok([ApiModel EXCEPT
                       !.classes = classes,
                       !.enums = IF value_types = <<BoxValueType, ColorValueType>>
                                 THEN <<ApiEnum(NsMode, "INT32", <<>>)>> ELSE <<>>,
                       !.value_types = value_types,
                       !.interfaces = interfaces,
                       !.callbacks = GeneratedCallbacks(interfaces)])

\* One run of the generator on the model object; emits counts the runs.
Generate(hash_seed) ==
    /\ emits < MaxEmits
    /\ model # NotParsed /\ model.ok
    /\ \E run \in {generate(model.value, output_dir, hash_seed)} :
         /\ output_dir' = run.output_dir
         /\ generated' = run.generated
         /\ model' = Ok(run.model)
    /\ emits' = emits + 1
    /\ UNCHANGED <<translation_unit, namesVars, method, out>>

NextGenerate == \E hash_seed \in HashSeeds : Generate(hash_seed)

SpecGenerate == InitGenerate /\ [][NextGenerate]_vars

-----------------------------------------------------------------------------
(* Dead-enum elimination.                                                  *)

Parsed == model # NotParsed /\ model.ok

DeclaredEnums ==
    LET decls == SelectSeq(translation_unit, LAMBDA c : c.kind = "ENUM_DECL")
    IN  [i \in 1..Len(decls) |-> decls[i].qualified_name]

KeptEnums == [i \in 1..Len(model.value.enums) |-> model.value.enums[i].qualified_name]

Range(seq) == {seq[i] : i \in 1..Len(seq)}

\* The declared types of the parameters and returns of the public methods,
\* static methods and constructors of the public classes, and of the fields
\* of the value types, one entry per use.
TypesUsed(group) ==
    {u \in UNION {{<<i, j, k>> :
                     j \in 1..Len(translation_unit[i].children),
                     k \in 0..MaxConstructors} :
                  i \in 1..Len(translation_unit)} :
        LET c == translation_unit[u[1]]
            member == c.children[u[2]]
        IN  /\ c.kind \in {"CLASS_DECL", "STRUCT_DECL"}
            /\ IF group = "fields"
               THEN /\ c.qualified_name \in settings_value_types
                    /\ member.kind = "FIELD_DECL" /\ u[3] = 0
               ELSE /\ c.qualified_name \in settings_public_apis
                    /\ member.kind \in {"CXX_METHOD", "CONSTRUCTOR"}
                    /\ member.access_specifier = "PUBLIC"
                    /\ IF u[3] = 0 THEN member.kind = "CXX_METHOD"
                       ELSE u[3] <= Len(member.children)}

\* The type of a use: of the field, of the return (0) or of a parameter.
TypeOfUse(u) ==
    LET member == translation_unit[u[1]].children[u[2]]
    IN  IF member.kind = "FIELD_DECL" THEN member.type
        ELSE IF u[3] = 0 THEN member.result_type
        ELSE member.children[u[3]].type

IsEnum(t, qualified_name) == t.kind = "ENUM" /\ t.declaration = qualified_name

\* The enum is named by the type, directly or as a pointee or array element.
RECURSIVE Mentions(_, _)
Mentions(t, qualified_name) ==
    \/ IsEnum(t, qualified_name)
    \/ t.kind \in {"LVALUEREFERENCE", "RVALUEREFERENCE", "POINTER"}
       /\ Mentions(t.pointee, qualified_name)
    \/ t.kind = "CONSTANTARRAY" /\ Mentions(t.element_type, qualified_name)

DirectUses(group, qualified_name) ==
    Cardinality({u \in TypesUsed(group) : IsEnum(TypeOfUse(u), qualified_name)})

C9_DeadEnumsReachable ==
    Parsed =>
        \A q \in Range(DeclaredEnums) :
            q \in Range(KeptEnums)
                <=> \E u \in TypesUsed("members") \cup TypesUsed("fields") :
                        Mentions(TypeOfUse(u), q)

-----------------------------------------------------------------------------
(* Constructors.                                                           *)

\* The bases of a class, over all its base specifiers, transitively.
RECURSIVE AllBases(_)
AllBases(cursor) ==
    LET specifiers == ChildrenOfKind(cursor, "CXX_BASE_SPECIFIER")
    IN  UNION {{specifiers[i].children[1].definition.qualified_name}
                  \cup AllBases(specifiers[i].children[1].definition) :
               i \in 1..Len(specifiers)}

TheClass == translation_unit[1]
DeclaredConstructors == ChildrenOfKind(TheClass, "CONSTRUCTOR")
ClassParsed == Parsed /\ Len(model.value.classes) = 1

\* C10: a class not derived from the borrowed marker that declares an explicit
\* default constructor which is not public, and no public constructor other
\* than copy or move constructors, has an empty constructor list; one that
\* declares no constructor at all has exactly one constructor, of zero
\* parameters.
C10_DefaultConstructorSynthesis ==
    ClassParsed /\ settings_borrowed_obj_superclass \notin AllBases(TheClass) =>
        /\ (/\ \E i \in 1..Len(DeclaredConstructors) :
                  /\ DeclaredConstructors[i].ctor = "default"
                  /\ DeclaredConstructors[i].access_specifier # "PUBLIC"
            /\ \A i \in 1..Len(DeclaredConstructors) :
                  DeclaredConstructors[i].access_specifier = "PUBLIC"
                      => DeclaredConstructors[i].ctor \in {"copy", "move"})
              => model.value.classes[1].constructors = <<>>
        /\ Len(DeclaredConstructors) = 0
              => /\ Len(model.value.classes[1].constructors) = 1
                 /\ model.value.classes[1].constructors[1].parameters = <<>>

\* A class whose only constructor is a private default constructor is parsed
\* to a class without constructors.
C10_Witness ==
    /\ ClassParsed
    /\ TheClass.children = <<ConstructorCursor("default", "PRIVATE", <<>>)>>
    /\ model.value.classes[1].constructors = <<>>

\* The constructor list of the parsed class holds a copy or move constructor:
\* the parameter of such a constructor is a reference to the class itself.
ModelsCopyOrMove ==
    \E i \in 1..Len(model.value.classes[1].constructors) :
        \E k \in 1..Len(model.value.classes[1].constructors[i].parameters) :
            LET t == model.value.classes[1].constructors[i].parameters[k].type
            IN  /\ isinstance(t, "PassByRef")
                /\ t.pointee = ApiClassRef(NsWidget)

\* C11: a class that declares constructors, none of them public, whatever
\* their parameters, has an empty constructor list; and no copy or move
\* constructor is in the constructor list of any class.
C11_ConstructorListInvariant ==
    ClassParsed =>
        /\ (/\ Len(DeclaredConstructors) > 0
            /\ \A i \in 1..Len(DeclaredConstructors) :
                  DeclaredConstructors[i].access_specifier # "PUBLIC")
              => model.value.classes[1].constructors = <<>>
        /\ ~ModelsCopyOrMove

\* C12: a class with the borrowed-object marker among its direct or
\* transitive bases, over all of its base specifiers, has an empty
\* constructor list.
C12_BorrowedObjects ==
    ClassParsed /\ settings_borrowed_obj_superclass \in AllBases(TheClass) =>
        model.value.classes[1].constructors = <<>>

-----------------------------------------------------------------------------
(* Destructibility and value types.                                        *)

DeclaresDestructor(cursor, public) ==
    \E i \in 1..Len(cursor.children) :
        /\ cursor.children[i].kind = "DESTRUCTOR"
        /\ (cursor.children[i].access_specifier = "PUBLIC") = public

\* The direct bases of a class, over all its base specifiers.
DirectBases(cursor) ==
    LET specifiers == ChildrenOfKind(cursor, "CXX_BASE_SPECIFIER")
    IN  {specifiers[i].children[1].definition : i \in 1..Len(specifiers)}

\* Destructibility as the rule states it.
RECURSIVE Destructible(_)
Destructible(cursor) ==
    IF DeclaresDestructor(cursor, FALSE) THEN FALSE
    ELSE IF \E base \in DirectBases(cursor) : ~Destructible(base)
    THEN DeclaresDestructor(cursor, TRUE)
    ELSE TRUE

\* C13: the destructible flag of a parsed class is false when the class
\* declares a non-public destructor; otherwise, when some base class, over all
\* base specifiers and evaluated recursively, is not destructible, it is true
\* exactly when the class declares a public destructor; otherwise it is true.
C13_Destructibility ==
    ClassParsed => model.value.classes[1].destructible = Destructible(TheClass)

\* A class without a destructor whose second base is not destructible.
C13_Witness ==
    /\ ClassParsed
    /\ TheClass.children = <<BaseSpecifier(OtherCursor), BaseSpecifier(MidCursor)>>
    /\ ~model.value.classes[1].destructible

HasZeroParameterConstructor(cursor) ==
    \E i \in 1..Len(_build_constructor_models(cursor)) :
        _build_constructor_models(cursor)[i].parameters = <<>>

\* C15: a record is in model.value_types only if its name is in the
\* value-type set, it is destructible and its constructor list has a
\* zero-parameter constructor; a record of the set that fails one of the two
\* raises an error; a record outside the set is skipped without error.
C15_ValueTypeAdmission ==
    model # NotParsed =>
        LET in_set == TheClass.qualified_name \in settings_value_types
            admissible == Destructible(TheClass) /\ HasZeroParameterConstructor(TheClass)
        IN  /\ (model.ok /\ model.value.value_types # <<>>) => in_set /\ admissible
            /\ in_set /\ ~admissible => ~model.ok
            /\ ~in_set => model.ok /\ model.value.value_types = <<>>

\* A struct of the value-type set with a private destructor stops the parse.
C15_Witness ==
    /\ model # NotParsed
    /\ TheClass.qualified_name = NsBox
    /\ DeclaresDestructor(TheClass, FALSE)
    /\ ~model.ok

-----------------------------------------------------------------------------
(* Overloads on the constness of the return type.                          *)

\* A method without its identity and with the const flag of a by-reference
\* return type cleared.
ClearedConst(method_model) ==
    [name |-> method_model.name,
     parameters |-> [k \in 1..Len(method_model.parameters) |->
                       [name |-> method_model.parameters[k].name,
                        type |-> method_model.parameters[k].type]],
     return_type |-> IF isinstance(method_model.return_type, "PassByRef")
                     THEN [method_model.return_type EXCEPT !.const = FALSE]
                     ELSE method_model.return_type]

ReturnsConst(method_model) ==
    /\ isinstance(method_model.return_type, "PassByRef")
    /\ method_model.return_type.const

DeclaredMethods == method_models_from(TheClass, 1, FALSE)
KeptMethods == model.value.classes[1].methods

\* C14: of each group of declared methods that are equal once the const flag
\* of a by-reference return type is cleared, exactly one method is kept, and
\* it is one that does not return const whenever the group has such a method.
C14_ConstOverloadCollapse ==
    ClassParsed =>
        \A d \in 1..Len(DeclaredMethods) :
            LET group(methods) == {i \in 1..Len(methods) :
                                     ClearedConst(methods[i]) = ClearedConst(DeclaredMethods[d])}
            IN  /\ Cardinality(group(KeptMethods)) = 1
                /\ (\E i \in group(DeclaredMethods) : ~ReturnsConst(DeclaredMethods[i]))
                      => \A i \in group(KeptMethods) : ~ReturnsConst(KeptMethods[i])

-----------------------------------------------------------------------------
(* The callback registry.                                                  *)

IsCallbackTypedef(type) ==
    /\ type.kind = "TYPEDEF"
    /\ type.canonical.kind = "POINTER"
    /\ type.canonical.pointee.kind = "FUNCTIONPROTO"

\* The function-pointer typedefs a type mentions, those in the signatures of
\* the typedefs included.
RECURSIVE CallbackTypedefs(_)
CallbackTypedefs(type) ==
    IF type.kind = "FUNCTIONPROTO"
    THEN UNION {CallbackTypedefs(type.argument_types[k]) :
                  k \in 1..Len(type.argument_types)} \cup CallbackTypedefs(type.result)
    ELSE IF IsCallbackTypedef(type)
    THEN {type} \cup CallbackTypedefs(type.canonical.pointee)
    ELSE IF type.kind \in {"LVALUEREFERENCE", "RVALUEREFERENCE", "POINTER"}
    THEN CallbackTypedefs(type.pointee)
    ELSE {}

\* The function-pointer typedefs resolved while the class was built.
ResolvedTypedefs ==
    UNION {CallbackTypedefs(TheClass.children[i].children[1].type) :
             i \in 1..Len(TheClass.children)}

\* The callback a typedef declares: its name, return type and parameters.
DeclaredCallback(type) ==
    [qualified_name |-> type.spelling,
     return_type |-> IF type.canonical.pointee.result = VoidType THEN None
                     ELSE ApiPrimitiveType("INT32"),
     parameters |->
         [k \in 1..Len(type.declaration.children) |->
            [name |-> type.declaration.children[k].displayname,
             type |-> IF IsCallbackTypedef(type.declaration.children[k].type)
                      THEN ApiCallbackRef(type.declaration.children[k].type.spelling)
                      ELSE ApiPrimitiveType("INT32")]]]

WithoutIdentity(callback) ==
    [callback EXCEPT !.parameters =
        [k \in 1..Len(@) |-> [name |-> @[k].name, type |-> @[k].type]]]

\* C16: model.callbacks has at most one entry per typedef name; the entries
\* are the callbacks of the typedefs that were resolved, each as its typedef
\* declares it, however often it was resolved; and each parameter whose type
\* is a function-pointer typedef is a CallbackRef of the typedef's name.
C16_CallbackRegistry ==
    ClassParsed =>
        LET callbacks == model.value.callbacks
        IN  /\ \A i, j \in 1..Len(callbacks) :
                  callbacks[i].qualified_name = callbacks[j].qualified_name => i = j
            /\ {WithoutIdentity(callbacks[i]) : i \in 1..Len(callbacks)}
                  = {DeclaredCallback(type) : type \in ResolvedTypedefs}
            /\ \A i \in 1..Len(TheClass.children) :
                  IsCallbackTypedef(TheClass.children[i].children[1].type)
                      => KeptMethods[i].parameters[1].type
                            = ApiCallbackRef(TheClass.children[i].children[1].type.spelling)

\* Done is resolved by two methods, and by Fn in between: one entry each.
C16_Witness ==
    /\ ClassParsed
    /\ Len(TheClass.children) = 3
    /\ TheClass.children[1].children[1].type = DoneType
    /\ TheClass.children[2].children[1].type = FnType
    /\ TheClass.children[3].children[1].type = DoneType
    /\ Len(model.value.callbacks) = 2
    /\ model.value.callbacks[1].qualified_name = NsDone

-----------------------------------------------------------------------------
(* The output of a run.                                                    *)

Ran == generated # NotGenerated

\* C18: all-or-nothing output.  When a run has aborted with an error, none
\* of conversions.h, cfilament.h and cfilament.cpp has been written.
C18_AllOrNothing ==
    (Ran /\ ~generated.ok) =>
        /\ ~output_dir.conversions_h.exists
        /\ ~output_dir.cfilament_h.exists
        /\ ~output_dir.cfilament_cpp.exists


\* C17: deterministic generation.  A run that leaves the model as it found
\* it, after a run that did so too, writes to every output file the text
\* that the run before it wrote: for the fixed model the order of the
\* includes, the force-cast conversions and the entity-instance typedefs is
\* the same in every run.
C17_DeterministicGeneration ==
    [][(Ran /\ model' = model) => output_dir' = output_dir]_vars

\* The functions that conversions.h defines.
DefinedConversions ==
    LET content == output_dir.conversions_h.content
    IN  UNION {{content[i].functions[k] : k \in 1..Len(content[i].functions)} :
                 i \in {j \in 1..Len(content) : content[j].kind = "definition"}}

SizeAssertedCopy(name, takes, returns) ==
    \E function \in DefinedConversions :
        /\ function.name = name
        /\ function.takes = takes
        /\ function.returns = returns
        /\ "static_assert" \in function.statements

\* C19: force-cast conversions.  For every force-cast primitive kind
\* conversions.h defines a by-value conversion from the native to the
\* external representation and one from the external to the native, each
\* with a static assertion that the two have equal size.
C19_ForceCastConversions ==
    (Ran /\ output_dir.conversions_h.exists) =>
        \A kind \in _force_cast_primitive_kinds :
            /\ SizeAssertedCopy("convertOut", _primitive_type_names_filament[kind],
                                _primitive_type_names[kind])
            /\ SizeAssertedCopy("convertIn", _primitive_type_names[kind],
                                _primitive_type_names_filament[kind])

\* The assignments of the routine that the piece at position i of
\* conversions.h opens: those between it and the next definition.
RoutineAssignments(i) ==
    LET content == output_dir.conversions_h.content
        later == {j \in (i + 1)..Len(content) : content[j].kind = "definition"}
        stop == IF later = {} THEN Len(content) + 1
                ELSE CHOOSE j \in later : \A k \in later : j <= k
    IN  {j \in (i + 1)..(stop - 1) : content[j].kind = "assignment"}

\* The routine assigns every field on its own, an array field index by index.
AssignsFieldByField(i, value_type) ==
    LET content == output_dir.conversions_h.content
        assigned(name, index) ==
            Cardinality({j \in RoutineAssignments(i) :
                           content[j].field = name /\ content[j].index = index})
    IN  \A f \in 1..Len(value_type.fields) :
            LET field == value_type.fields[f]
            IN  IF isinstance(field.type, "ConstantArray")
                THEN /\ \A k \in 0..(field.type.element_count - 1) :
                           assigned(field.name, k) = 1
                     /\ assigned(field.name, -1) = 0
                ELSE assigned(field.name, -1) = 1

ConvertsFieldByField(value_type, name, takes, returns) ==
    LET content == output_dir.conversions_h.content
    IN  \E i \in 1..Len(content) :
            /\ content[i].kind = "definition"
            /\ \E k \in 1..Len(content[i].functions) :
                   /\ content[i].functions[k].name = name
                   /\ content[i].functions[k].takes = takes
                   /\ content[i].functions[k].returns = returns
            /\ AssignsFieldByField(i, value_type)

\* The routines from the native to the external representation are there.
NativeToExternalRoutines ==
    (Ran /\ output_dir.conversions_h.exists) =>
        \A v \in 1..Len(model.value.value_types) :
            ConvertsFieldByField(model.value.value_types[v], "convertOut",
                                 text(model.value.value_types[v].qualified_name),
                                 mangle_name(model.value.value_types[v].qualified_name))

\* C20: value-type conversion routines.  For every value type of the model
\* conversions.h defines a conversion from the external to the native
\* representation and one from the native to the external, each assigning
\* every field on its own, with an array field of n elements assigned by n
\* assignments, one per index.
C20_ValueTypeConversionRoutines ==
    (Ran /\ output_dir.conversions_h.exists) =>
        \A v \in 1..Len(model.value.value_types) :
            /\ ConvertsFieldByField(model.value.value_types[v], "convertOut",
                                    text(model.value.value_types[v].qualified_name),
                                    mangle_name(model.value.value_types[v].qualified_name))
            /\ ConvertsFieldByField(model.value.value_types[v], "convertIn",
                                    mangle_name(model.value.value_types[v].qualified_name),
                                    text(model.value.value_types[v].qualified_name))

-----------------------------------------------------------------------------
(* The C++ that conversions.h holds, executed.                             *)

\* The values of a field element, and the instances of a struct: for every
\* field a value per index, a field that is no array having the one index -1.
\* An element that was never assigned holds what no element holds.
ElementValues == {0, 1}
Uninitialized == -1
Indexes(field) ==
    IF isinstance(field.type, "ConstantArray")
    THEN 0..(field.type.element_count - 1) ELSE {-1}
Instances(value_type) ==
    LET fields == {value_type.fields[f] : f \in 1..Len(value_type.fields)}
        field_of(name) == CHOOSE field \in fields : field.name = name
    IN  {x \in [{field.name : field \in fields} ->
                  UNION {[Indexes(field) -> ElementValues] : field \in fields}] :
           \A field \in fields : DOMAIN x[field.name] = Indexes(field)}

\* The position in conversions.h of the definition of the function of this
\* name and these types, 0 when there is none.
DefinitionOf(name, takes, returns) ==
    LET content == output_dir.conversions_h.content
        found == {i \in 1..Len(content) :
                    /\ content[i].kind = "definition"
                    /\ \E k \in 1..Len(content[i].functions) :
                          /\ content[i].functions[k].name = name
                          /\ content[i].functions[k].takes = takes
                          /\ content[i].functions[k].returns = returns}
    IN  IF found = {} THEN 0 ELSE CHOOSE i \in found : \A j \in found : i <= j

\* The struct that the routine defined at position i returns for input:
\* "result" is declared without initializer, and each assignment copies one
\* element.  The conversions of an element (a cast to the enum of the other
\* side, a same-size copy, or none) keep its value.
Run(i, value_type, input) ==
    LET content == output_dir.conversions_h.content
        assigned(name, index) ==
            \E j \in RoutineAssignments(i) :
                content[j].field = name /\ content[j].index = index
    IN  [name \in DOMAIN input |->
            [k \in DOMAIN input[name] |->
                IF assigned(name, k) THEN input[name][k] ELSE Uninitialized]]

\* C21: round trip.  For every value type of the model and every instance x
\* of its external struct, conversions.h defines the conversion to the
\* native struct and the conversion back, and converting x to native and
\* back gives x in every field.
C21_RoundTrip ==
    (Ran /\ output_dir.conversions_h.exists) =>
        \A v \in 1..Len(model.value.value_types) :
            LET value_type == model.value.value_types[v]
                native == text(value_type.qualified_name)
                external == mangle_name(value_type.qualified_name)
                to_native == DefinitionOf("convertIn", external, native)
                to_external == DefinitionOf("convertOut", native, external)
            IN  /\ to_native # 0
                /\ to_external # 0
                /\ \A x \in Instances(value_type) :
                       Run(to_external, value_type, Run(to_native, value_type, x)) = x

-----------------------------------------------------------------------------
(* The interface structs of cfilament.h.                                   *)

\* The function-pointer typedefs of this name in cfilament.h, and the fields
\* of this name of the interface structs.
FunctionPointers(name) ==
    LET content == output_dir.cfilament_h.content
    IN  {i \in 1..Len(content) :
           /\ content[i].kind = "function_pointer"
           /\ content[i].functions[1].name = name}

StructFields(name) ==
    LET content == output_dir.cfilament_h.content
    IN  {i \in 1..Len(content) :
           content[i].kind = "struct_field" /\ content[i].field = name}

\* The signature ends with an untyped pointer parameter.
EndsWithUserData(function) ==
    /\ Len(function.takes) > 0
    /\ function.takes[Len(function.takes)].type = ApiPassByRef(FALSE, "POINTER", None)

\* C22: interface structs.  For every interface, cfilament.h holds one
\* function-pointer typedef and one struct field per method of the interface
\* and one of each for a parameterless "free"; each of these signatures ends
\* with an untyped user-data pointer parameter; the struct has a field
\* "user"; and the method list of the interface in the model has no "free"
\* added to it.
C22_InterfaceStructs ==
    (Ran /\ generated.ok) =>
        \A i \in 1..Len(model.value.interfaces) :
            LET interface == model.value.interfaces[i]
                content == output_dir.cfilament_h.content
                method_names ==
                    {interface.methods[j].name : j \in 1..Len(interface.methods)}
                    \cup {"free"}
            IN  /\ \A name \in method_names :
                       LET exported == mangle_name(interface.qualified_name) \o "_" \o name
                       IN  /\ Cardinality(FunctionPointers(exported)) = 1
                           /\ Cardinality(StructFields(name)) = 1
                           /\ \A p \in FunctionPointers(exported) :
                                  EndsWithUserData(content[p].functions[1])
                /\ Cardinality(StructFields("user")) = 1
                /\ \A j \in 1..Len(interface.methods) :
                       interface.methods[j].oid[1] # "header"

-----------------------------------------------------------------------------
(* The spellings of the converter.                                         *)

\* create_delegate has spelled the return type, a PassByRef.
ReferenceSpelled ==
    /\ out.kind = "create_delegate"
    /\ out.return_type # None
    /\ isinstance(out.return_type, "PassByRef")

ConstPrefix(t) == IF t.const THEN "const " ELSE ""
ReferenceMarker(t) ==
    IF t.ref_type = "POINTER" THEN "*"
    ELSE IF t.ref_type = "LVALUE_REF" THEN "&" ELSE "&&"

\* The external spelling of a PassByRef is the handle name for a pointee that
\* is a ClassRef, and else const, the pointee's external spelling and "*".
ExternalIndirectionSpelling ==
    ReferenceSpelled =>
        LET t == out.return_type
        IN  IF t.pointee # None /\ isinstance(t.pointee, "ClassRef")
            THEN get_wrapper_type(t) = Ok(mangle_name(t.pointee.qualified_name))
            ELSE get_wrapper_type(t.pointee).ok =>
                     get_wrapper_type(t)
                         = Ok(ConstPrefix(t) \o get_wrapper_type(t.pointee).value \o "*")

\* C23: indirection spelling.  The external spelling of a PassByRef is as
\* above; the native spelling of a PassByRef whose pointee is no ClassRef is
\* const (when the flag is set), the pointee's native spelling, and "*" for a
\* pointer, "&" for an lvalue reference, "&&" for an rvalue reference.
C23_IndirectionSpelling ==
    /\ ExternalIndirectionSpelling
    /\ ReferenceSpelled =>
           LET t == out.return_type
           IN  (/\ ~(t.pointee # None /\ isinstance(t.pointee, "ClassRef"))
                /\ get_filament_type(t.pointee).ok) =>
                   get_filament_type(t)
                       = Ok(ConstPrefix(t) \o get_filament_type(t.pointee).value
                              \o ReferenceMarker(t))

\* The type references that type resolution in the parser can produce: the
\* only bitset it models has one 32-bit word.
RECURSIVE ExtractorProduces(_)
ExtractorProduces(t) ==
    IF t = None THEN TRUE
    ELSE IF isinstance(t, "BitsetType") THEN t.element_count = 1
    ELSE IF isinstance(t, "PassByRef") THEN ExtractorProduces(t.pointee)
    ELSE IF isinstance(t, "ConstantArray") THEN ExtractorProduces(t.element_type)
    ELSE TRUE

IsUntypedPointer(t) ==
    isinstance(t, "PassByRef") /\ t.ref_type = "POINTER" /\ t.pointee = None

\* C24: converter totality.  For every type reference that the extractor can
\* produce, alone or wrapped in a PassByRef, convert_in and convert_out each
\* return an expression and do not raise; for StringType and for an untyped
\* pointer both return the expression unchanged.
C24_ConverterTotality ==
    (DelegateDecided /\ ExtractorProduces(out.return_type)) =>
        LET t == out.return_type
        IN  /\ convert_in("value", t).ok
            /\ convert_out("value", t).ok
            /\ (isinstance(t, "StringType") \/ IsUntypedPointer(t)) =>
                   /\ convert_in("value", t) = Ok("value")
                   /\ convert_out("value", t) = Ok("value")

\* StringType and untyped pointers pass through unchanged in both directions.
PassThroughUnchanged ==
    DelegateDecided =>
        LET t == out.return_type
        IN  (isinstance(t, "StringType") \/ IsUntypedPointer(t)) =>
                /\ convert_in("value", t) = Ok("value")
                /\ convert_out("value", t) = Ok("value")

\* C28: convert_in and convert_out accept the same types.  For every type
\* reference t, convert_in(e, t) raises exactly when convert_out(e, t) does.
C28_SameTypesAccepted ==
    DelegateDecided =>
        (convert_in("value", out.return_type).ok
            <=> convert_out("value", out.return_type).ok)

-----------------------------------------------------------------------------
(* Pointers and references to hidden classes.                              *)

\* Result types of a method get(): a pointer, an lvalue reference and an rvalue
\* reference to the hidden class and to a class outside the hidden set.
HiddenResultTypes ==
    {ClangPointee(kind, ClangRecordType(declaration, FALSE), FALSE) :
        kind \in {"POINTER", "LVALUEREFERENCE", "RVALUEREFERENCE"},
        declaration \in {NsHidden, NsOther}}
    \cup {ClangPointee("POINTER", ClangRecordType(NsHidden, TRUE), FALSE)}

NextHidden ==
    \/ \E result_type \in HiddenResultTypes : DeclareMethod(result_type)
    \/ ParseApi

SpecHidden == InitMethods /\ [][NextHidden]_vars

WrapsClassRef(type) ==
    /\ isinstance(type, "PassByRef")
    /\ type.pointee # None
    /\ isinstance(type.pointee, "ClassRef")

RefersTo(type, kind, qualified_name) ==
    /\ type.kind = kind
    /\ type.pointee.kind = "RECORD"
    /\ type.pointee.declaration = qualified_name

Indirections == {"POINTER", "LVALUEREFERENCE", "RVALUEREFERENCE"}

\* C25: the resolved type of a pointer, an lvalue reference or an rvalue
\* reference to a class of the hidden-API set is the OpaqueRef of that name,
\* never a PassByRef around a ClassRef; that of a pointer or a reference to a
\* class outside the set is a PassByRef whose pointee is the ClassRef.
C25_HiddenClasses ==
    ClassParsed =>
        \A i \in 1..Len(DeclaredMethods) :
            \A kind \in Indirections :
                LET declared == TheClass.children[i].result_type
                    resolved == DeclaredMethods[i].return_type
                IN  /\ RefersTo(declared, kind, NsHidden) =>
                           resolved = ApiOpaqueRef(NsHidden)
                    /\ RefersTo(declared, kind, NsOther) =>
                           /\ WrapsClassRef(resolved)
                           /\ resolved.pointee = ApiClassRef(NsOther)

\* What the parser does: only a pointer to a hidden class becomes an
\* OpaqueRef, a reference to one stays a PassByRef around its ClassRef.
HiddenPointersOnly ==
    ClassParsed =>
        \A i \in 1..Len(DeclaredMethods) :
            LET declared == TheClass.children[i].result_type
                resolved == DeclaredMethods[i].return_type
            IN  /\ RefersTo(declared, "POINTER", NsHidden) =>
                       resolved = ApiOpaqueRef(NsHidden)
                /\ \A kind \in Indirections \ {"POINTER"} :
                       RefersTo(declared, kind, NsHidden) =>
                           /\ WrapsClassRef(resolved)
                           /\ resolved.pointee = ApiClassRef(NsHidden)
                /\ \A kind \in Indirections :
                       RefersTo(declared, kind, NsOther) =>
                           /\ WrapsClassRef(resolved)
                           /\ resolved.pointee = ApiClassRef(NsOther)

\* A kept method of the parsed class returns a reference to the hidden class.
KeepsHiddenReference ==
    /\ ClassParsed
    /\ \E i \in 1..Len(KeptMethods) :
           /\ WrapsClassRef(KeptMethods[i].return_type)
           /\ KeptMethods[i].return_type.pointee = ApiClassRef(NsHidden)

-----------------------------------------------------------------------------
(* The model across a generator run.                                       *)

\* The parameter lists of the model: those of every constructor, method and
\* static method of every class, of every method of every interface and of
\* every callback.
ParameterLists(m) ==
    [classes |-> [i \in 1..Len(m.classes) |->
                    [constructors |-> [j \in 1..Len(m.classes[i].constructors) |->
                                         m.classes[i].constructors[j].parameters],
                     methods |-> [j \in 1..Len(m.classes[i].methods) |->
                                    m.classes[i].methods[j].parameters],
                     static_methods |-> [j \in 1..Len(m.classes[i].static_methods) |->
                                           m.classes[i].static_methods[j].parameters]]],
     interfaces |-> [i \in 1..Len(m.interfaces) |->
                       [j \in 1..Len(m.interfaces[i].methods) |->
                          m.interfaces[i].methods[j].parameters]],
     callbacks |-> [i \in 1..Len(m.callbacks) |-> m.callbacks[i].parameters]]

\* C26: a generator run leaves every parameter list of every method,
\* constructor and callback of the model as it was before the run.
C26_ModelUnmodified ==
    [][ParameterLists(model'.value) = ParameterLists(model.value)]_vars

\* A run changes nothing of the model but its parameter lists: what it appends
\* is one parameter named result to the lists of the trailing-return members.
OnlyParameterListsGrow ==
    [][LET lists(m) == ParameterLists(m)
           grown(before, after) ==
               \/ after = before
               \/ /\ Len(after) = Len(before) + 1
                  /\ SubSeq(after, 1, Len(before)) = before
                  /\ after[Len(after)].name = "result"
       IN  /\ \A i \in 1..Len(model.value.classes) :
                 /\ lists(model'.value).classes[i].constructors
                        = lists(model.value).classes[i].constructors
                 /\ \A j \in 1..Len(model.value.classes[i].methods) :
                        grown(lists(model.value).classes[i].methods[j],
                              lists(model'.value).classes[i].methods[j])
                 /\ \A j \in 1..Len(model.value.classes[i].static_methods) :
                        grown(lists(model.value).classes[i].static_methods[j],
                              lists(model'.value).classes[i].static_methods[j])
           /\ \A i \in 1..Len(model.value.interfaces) :
                 \A j \in 1..Len(model.value.interfaces[i].methods) :
                     grown(lists(model.value).interfaces[i][j],
                           lists(model'.value).interfaces[i][j])
           /\ \A i \in 1..Len(model.value.callbacks) :
                 grown(lists(model.value).callbacks[i], lists(model'.value).callbacks[i])]_vars

-----------------------------------------------------------------------------
(* The name a delegate gets.                                               *)

\* The method as it was when create_delegate was called, and its owner.
GivenMethod == [method EXCEPT !.parameters = out.given]
GivenAliases ==
    IF ~out.alias THEN {}
    ELSE IF method.role = "method" THEN {<<"methods", 1>>}
    ELSE {<<"static_methods", 1>>}

\* What line 72 of create_delegate computes in the call that out records.
DelegateName ==
    create_delegate_name(after_append(OwnerOf(GivenMethod), GivenAliases, out.after),
                         method.name, out.after)

\* The name of the method on the untouched model.
UntouchedName ==
    resolve_overloaded_name(OwnerOf(GivenMethod), method.name, out.given)

DelegateCalled == out.kind = "create_delegate"
ResultAppended == DelegateCalled /\ Len(out.after) = Len(out.given) + 1

\* C27: create_delegate obtains the external name of a method or static
\* method without raising, and the name is the mangled owner name, '_' and
\* resolve_overloaded_name of the method on the untouched model, with or
\* without the appended result parameter, for the method's own list or a copy.
C27_DelegateNameResolves ==
    DelegateCalled =>
        /\ DelegateName.ok
        /\ UntouchedName.ok
        /\ DelegateName.value
              = mangle_name(NsWidget) \o "_" \o UntouchedName.value

\* What the code does for the only member of its name: the name resolves to
\* that of the untouched model unless a copy of the list got the result
\* parameter, and then the lookup of the list raises ValueError.
NameLostOnAppendedCopy ==
    DelegateCalled =>
        IF ResultAppended /\ ~out.alias
        THEN DelegateName = Raise("ValueError") /\ out.result = Raise("ValueError")
        ELSE /\ DelegateName.ok
             /\ DelegateName.value
                   = mangle_name(NsWidget) \o "_" \o UntouchedName.value

-----------------------------------------------------------------------------
(* create_delegate for each of the four forward types.                      *)

MaxForwardConstructors == 2

\* Constructor lists of up to MaxForwardConstructors constructors, each with
\* no parameter or one.
RECURSIVE ForwardConstructorLists(_)
ForwardConstructorLists(n) ==
    IF n = 0 THEN {<<>>}
    ELSE ForwardConstructorLists(n - 1)
         \cup {Append(list, ApiConstructor(FreshParameters(<<"W", "ctor", n>>, count))) :
                  list \in {l \in ForwardConstructorLists(n - 1) : Len(l) = n - 1},
                  count \in ParamCounts}

\* The class: destructible or not, with its constructors, and with no method,
\* an instance method Destroy() or a static method Create().
ForwardClasses ==
    {ApiClass(NsWidget, destructible, constructors, methods, static_methods) :
        destructible \in BOOLEAN,
        constructors \in ForwardConstructorLists(MaxForwardConstructors),
        methods \in {<<>>, <<ApiMethod(<<"W", "method", 1>>, DESTRUCTOR_NAME, None, <<>>)>>},
        static_methods \in {<<>>, <<ApiMethod(<<"W", "static_method", 1>>,
                                              CONSTRUCTOR_NAME, INT32, <<>>)>>}}

Forwarded(forward_type, given, r) ==
    [kind |-> "forward", forward_type |-> forward_type, given |-> given,
     after |-> r.parameters, result |-> r.result]

InitForward ==
    /\ \E api_class \in ForwardClasses :
          owners = [A |-> api_class, B |-> ApiClass(NsOther, FALSE, <<>>, <<>>, <<>>)]
    /\ names = NoNames
    /\ method = NoMethod
    /\ out = NoOutput
    /\ emits = 0
    /\ translation_unit = <<>> /\ model = NotParsed
    /\ IdleOutput

\* A caller of create_delegate for the i-th constructor of the class.
ForwardConstructor(i) ==
    /\ emits < MaxEmits
    /\ i \in 1..Len(owners.A.constructors)
    /\ LET given == owners.A.constructors[i].parameters
       IN  out' = Forwarded("CONSTRUCTOR", given,
                            create_delegate(owners.A, "CONSTRUCTOR", given, {},
                                            None, None, emits))
    /\ emits' = emits + 1
    /\ UNCHANGED <<namesVars, method, parserVars, generatorVars>>

\* A caller of create_delegate for the destructor of the class.
ForwardDestructor ==
    /\ emits < MaxEmits
    /\ out' = Forwarded("DESTRUCTOR", <<>>,
                        create_delegate(owners.A, "DESTRUCTOR", <<>>, {},
                                        None, None, emits))
    /\ emits' = emits + 1
    /\ UNCHANGED <<namesVars, method, parserVars, generatorVars>>

\* A caller of create_delegate for the instance or the static method of the
\* class, with the method's own parameter list.
ForwardMethod(static) ==
    /\ emits < MaxEmits
    /\ LET list == IF static THEN owners.A.static_methods ELSE owners.A.methods
           which == IF static THEN "static_methods" ELSE "methods"
       IN  /\ Len(list) = 1
           /\ out' = Forwarded(IF static THEN "STATIC_METHOD" ELSE "METHOD",
                               list[1].parameters,
                               create_delegate(owners.A,
                                               IF static THEN "STATIC_METHOD" ELSE "METHOD",
                                               list[1].parameters, {<<which, 1>>},
                                               list[1].name, list[1].return_type, emits))
    /\ emits' = emits + 1
    /\ UNCHANGED <<namesVars, method, parserVars, generatorVars>>

NextForward ==
    \/ \E i \in 1..MaxForwardConstructors : ForwardConstructor(i)
    \/ ForwardDestructor
    \/ \E static \in BOOLEAN : ForwardMethod(static)

SpecForward == InitForward /\ [][NextForward]_vars

ForwardedAs(forward_type) == out.kind = "forward" /\ out.forward_type = forward_type

\* The delegate name of a member called member_name with the given list.
ExpectedDelegateName(member_name) ==
    mangle_name(NsWidget) \o "_"
        \o resolve_overloaded_name(owners.A, member_name, out.given).value

OwningHandle == ApiPassByRef(FALSE, "POINTER", ApiClassRef(NsWidget))

CreatesDelegate ==
    /\ out.result.ok
    /\ out.result.value.name = ExpectedDelegateName(CONSTRUCTOR_NAME)
    /\ out.result.value.return_type = OwningHandle

\* C30: create_delegate called with CONSTRUCTOR emits a delegate named
\* <owner>_Create, with the overload index where needed, that returns the
\* pointer to the class; called with DESTRUCTOR for a destructible class it
\* completes without error and emits a delegate named <owner>_Destroy; no
\* forward type leaves the call expression or the return type unbound.
C30_AllForwardTypes ==
    /\ ForwardedAs("CONSTRUCTOR") => CreatesDelegate
    /\ ForwardedAs("DESTRUCTOR") /\ owners.A.destructible =>
           /\ out.result.ok
           /\ out.result.value.name = ExpectedDelegateName(DESTRUCTOR_NAME)
    /\ out.kind = "forward" => out.result # Raise("UnboundLocalError")

\* What the code does: a constructor gets its delegate, a destructor never
\* does, and the call raises UnboundLocalError once the name is resolved.
DestructorNeverForwarded ==
    /\ ForwardedAs("CONSTRUCTOR") => CreatesDelegate
    /\ ForwardedAs("DESTRUCTOR") =>
           out.result = IF resolve_overloaded_name(owners.A, DESTRUCTOR_NAME, <<>>).ok
                        THEN Raise("UnboundLocalError") ELSE Raise("ValueError")
    /\ ForwardedAs("METHOD") \/ ForwardedAs("STATIC_METHOD") =>
           out.result # Raise("UnboundLocalError")

\* The second of two constructors got its delegate.
SecondConstructorForwarded ==
    /\ ForwardedAs("CONSTRUCTOR")
    /\ out.result.ok
    /\ out.result.value.name = mangle_name(NsWidget) \o "_" \o CONSTRUCTOR_NAME \o "2"

-----------------------------------------------------------------------------
(* Conversion functions called by delegates and those of conversions.h.    *)

\* The types whose values pass through a conversion function: the force-cast
\* primitives of the expression converter and the value types.
ConvertedTypes ==
    {ApiPrimitiveType(k) : k \in _force_cast_primitive_kinds}
    \cup {ApiValueTypeRef(NsBox), ApiValueTypeRef(NsColor)}

ConvertedParameters(moid) ==
    {<<>>} \cup {<<ApiParameterModel(<<moid, 1>>, "p1", t)>> : t \in ConvertedTypes}

\* One method of class Widget that returns nothing or a converted type and
\* takes nothing or one parameter of a converted type, and a model of no,
\* one or two value types to generate conversions.h from.
InitConversions ==
    /\ owners = [A |-> ApiClass(NsWidget, FALSE, <<>>, <<>>, <<>>),
                 B |-> ApiClass(NsOther, FALSE, <<>>, <<>>, <<>>)]
    /\ names = NoNames
    /\ \E role \in {"method", "static_method"}, t \in ConvertedTypes \cup {None} :
         \E parameters \in ConvertedParameters(<<"W", role, 1>>) :
          method = [oid |-> <<"W", role, 1>>, role |-> role, name |-> "value",
                    return_type |-> t, parameters |-> parameters]
    /\ out = NoOutput
    /\ emits = 0
    /\ translation_unit = <<>>
    /\ \E value_types \in {<<>>, <<BoxValueType>>, <<BoxValueType, ColorValueType>>} :
         model = Ok([ApiModel EXCEPT
                       !.enums = IF Len(value_types) = 2
                                 THEN <<ApiEnum(NsMode, "INT32", <<>>)>> ELSE <<>>,
                       !.value_types = value_types])
    /\ IdleOutput

NextConversions ==
    \/ \E alias \in BOOLEAN : CreateDelegate(alias)
    \/ \E hash_seed \in HashSeeds : Generate(hash_seed)

SpecConversions == InitConversions /\ [][NextConversions]_vars

NativeName(type) ==
    IF isinstance(type, "Primitive") THEN _primitive_type_names_filament[type.kind]
    ELSE text(type.qualified_name)

ExternalName(type) ==
    IF isinstance(type, "Primitive") THEN _primitive_type_names[type.kind]
    ELSE mangle_name(type.qualified_name)

\* The functions of conversions.h from the native to the external
\* representation of a type, and back.
ConversionsOut(type) ==
    {f \in DefinedConversions : f.takes = NativeName(type) /\ f.returns = ExternalName(type)}
ConversionsIn(type) ==
    {f \in DefinedConversions : f.takes = ExternalName(type) /\ f.returns = NativeName(type)}

\* The argument list, the call and the statement of a delegate that calls
\* only functions of conversions.h.
ArgumentTexts ==
    IF Len(out.given) = 0 THEN {""}
    ELSE {f.name \o "(" \o out.given[1].name \o ")" : f \in ConversionsIn(out.given[1].type)}

CallTexts ==
    {(IF method.role = "method"
      THEN "((" \o text(NsWidget) \o "*)" \o THIS_PARAM_NAME \o ")->"
      ELSE text(NsWidget) \o "::") \o method.name \o "(" \o a \o ")" : a \in ArgumentTexts}

StatementTexts ==
    IF out.return_type = None THEN CallTexts
    ELSE {out.result.value.return_stmt \o f.name \o "(" \o c \o ")" :
             f \in ConversionsOut(out.return_type), c \in CallTexts}

DelegateAndConversions ==
    /\ DelegateCalled /\ out.result.ok
    /\ output_dir.conversions_h.exists

\* C29: every conversion function that the forwarding statement of a
\* delegate calls, for a force-cast primitive or a value type as parameter or
\* return type, is a function that conversions.h defines with that name and
\* direction; so every force-cast kind of the expression converter is one
\* that conversion functions are emitted for.
C29_ConversionsDefined ==
    DelegateAndConversions => out.result.value.call_expression \in StatementTexts

\* What the code does: conversions.h defines only functions named convertOut
\* and convertIn, and none from the external representation of a value type;
\* a delegate calls convertOut<name> and convertIn<name> for a force-cast
\* primitive, so only delegates free of force-cast primitives and of
\* value-type parameters call defined functions, when the value type they
\* return is in the model.
OnlyValueTypeReturnsDefined ==
    DelegateAndConversions =>
        LET uses(type) == {t \in {out.return_type} \cup {out.given[i].type : i \in 1..Len(out.given)} :
                              t # None /\ isinstance(t, type)}
        IN  /\ \A f \in DefinedConversions : f.name \in {"convertOut", "convertIn"}
            /\ out.result.value.call_expression \in StatementTexts
                  <=> /\ uses("Primitive") = {}
                      /\ Len(out.given) = 0
                      /\ \A t \in uses("ValueTypeRef") :
                            \E v \in 1..Len(model.value.value_types) :
                                model.value.value_types[v].qualified_name = t.qualified_name

====
